---- MODULE Spec2Model ----
(***************************************************************************)
(* A model of the acorn-web extractor: the dependency graph, the graph     *)
(* builder, the jar-manifest reader and the reference rewriting.           *)
(*                                                                         *)
(* Strings are sequences of one-character strings, so that prefix tests    *)
(* (starts_with), splitting and joining are computed and not assumed.      *)
(* A path (PathBuf) is the sequence of its components; each component is   *)
(* a string.  The components "/" (root), "." and ".." are RootDir, CurDir  *)
(* and ParentDir.                                                          *)
(***************************************************************************)
EXTENDS Naturals, Sequences, FiniteSets, TLC

VARIABLES dep_graph, last, build, jar, out, call

vars == <<dep_graph, last, build, jar, out, call>>

\* Option<T>
None == [some |-> FALSE]
Some(x) == [some |-> TRUE, val |-> x]

(***************************************************************************)
(* Strings                                                                 *)
(***************************************************************************)
DOT == <<".">>
DOTDOT == <<".", ".">>
ROOT == <<"/">>

StartsWith(s, p) == Len(s) >= Len(p) /\ SubSeq(s, 1, Len(p)) = p

EndsWith(s, p) == Len(s) >= Len(p) /\ SubSeq(s, Len(s) - Len(p) + 1, Len(s)) = p

StripPrefix(s, p) == SubSeq(s, Len(p) + 1, Len(s))

RECURSIVE JoinWith(_, _)
JoinWith(comps, sep) ==
  IF comps = <<>> THEN <<>>
  ELSE IF Len(comps) = 1 THEN comps[1]
  ELSE comps[1] \o sep \o JoinWith(Tail(comps), sep)

\* PathBuf::to_string_lossy of a path given by its components
PathString(p) ==
  IF p # <<>> /\ p[1] = ROOT THEN ROOT \o JoinWith(Tail(p), <<"/">>)
  ELSE JoinWith(p, <<"/">>)

\* str::split('/')
RECURSIVE SplitSlashFrom(_, _, _)
SplitSlashFrom(s, i, cur) ==
  IF i > Len(s) THEN <<cur>>
  ELSE IF s[i] = "/" THEN <<cur>> \o SplitSlashFrom(s, i + 1, <<>>)
  ELSE SplitSlashFrom(s, i + 1, Append(cur, s[i]))

SplitSlash(s) == SplitSlashFrom(s, 1, <<>>)

(***************************************************************************)
(* std::path and pathdiff                                                  *)
(***************************************************************************)
is_absolute(p) == p # <<>> /\ p[1] = ROOT

\* Path::parent: the path without its last component
parent(p) == IF p = <<>> \/ p = <<ROOT>> THEN None ELSE Some(SubSeq(p, 1, Len(p) - 1))

\* Path::file_name: the last component when it is a normal one
file_name(p) ==
  IF p = <<>> THEN None
  ELSE IF p[Len(p)] \in {ROOT, DOTDOT, DOT} THEN None
  ELSE Some(p[Len(p)])

Repeat(x, n) == [i \in 1..n |-> x]

\* Path::new(s).components(): empty components and inner "." are dropped, a leading
\* "/" is the root and a leading "." is kept
RECURSIVE ComponentsFrom(_, _)
ComponentsFrom(parts, i) ==
  IF i > Len(parts) THEN <<>>
  ELSE IF parts[i] = <<>> THEN ComponentsFrom(parts, i + 1)
  ELSE IF parts[i] = DOT /\ i > 1 THEN ComponentsFrom(parts, i + 1)
  ELSE <<parts[i]>> \o ComponentsFrom(parts, i + 1)

PathFrom(s) ==
  IF s = <<>> THEN <<>>
  ELSE IF s[1] = "/" THEN <<ROOT>> \o ComponentsFrom(SplitSlash(s), 2)
  ELSE ComponentsFrom(SplitSlash(s), 1)

\* Path::join
join(base, p) == IF is_absolute(p) THEN p ELSE base \o p

\* file_utils::normalize_path
RECURSIVE normalize_from(_, _, _)
normalize_from(p, i, stack) ==
  IF i > Len(p) THEN stack
  ELSE IF p[i] = DOT THEN normalize_from(p, i + 1, stack)
  ELSE IF p[i] = DOTDOT
  THEN IF stack # <<>> /\ stack[Len(stack)] \notin {ROOT, DOTDOT}
       THEN normalize_from(p, i + 1, SubSeq(stack, 1, Len(stack) - 1))
       ELSE normalize_from(p, i + 1, Append(stack, DOTDOT))
  ELSE normalize_from(p, i + 1, Append(stack, p[i]))

\* faulty variant: the leading parents are not kept
normalize_path_parents_dropped(p) ==
  SelectSeq(normalize_from(p, 1, <<>>), LAMBDA component : component # DOTDOT)

normalize_path(p) == normalize_from(p, 1, <<>>)

\* pathdiff::diff_paths(path, base)
RECURSIVE diff_from(_, _, _, _)
diff_from(path, base, i, comps) ==
  IF i > Len(path) /\ i > Len(base) THEN Some(comps)
  ELSE IF i > Len(base) THEN Some(comps \o SubSeq(path, i, Len(path)))
  ELSE IF i > Len(path) THEN diff_from(path, base, i + 1, Append(comps, DOTDOT))
  ELSE IF comps = <<>> /\ path[i] = base[i] THEN diff_from(path, base, i + 1, comps)
  ELSE IF base[i] = DOT THEN diff_from(path, base, i + 1, Append(comps, path[i]))
  ELSE IF base[i] = DOTDOT THEN None
  ELSE Some(comps \o Repeat(DOTDOT, Len(base) - i + 1) \o SubSeq(path, i, Len(path)))

diff_paths(path, base) ==
  IF is_absolute(path) # is_absolute(base)
  THEN IF is_absolute(path) THEN Some(path) ELSE None
  ELSE diff_from(path, base, 1, <<>>)

(***************************************************************************)
(* DependencyGraph (dependency_graph.rs)                                   *)
(***************************************************************************)
JsComponent == "JsComponent"
JsFile == "JsFile"
CssFile == "CssFile"
OpaqueFile == "OpaqueFile"

Component(name) == [tag |-> "Component", name |-> name]
CssGlobal == [tag |-> "CssGlobal", name |-> <<>>]
Asset == [tag |-> "Asset", name |-> <<>>]
Dependency == [tag |-> "Dependency", name |-> <<>>]
Omit == [tag |-> "Omit", name |-> <<>>]

FileNode(path, file_type, target_location) ==
  [path |-> path, file_type |-> file_type, target_location |-> target_location]

\* HashMap::insert
MapInsert(m, k, v) == [x \in DOMAIN m \cup {k} |-> IF x = k THEN v ELSE m[x]]

EmptyMap == [x \in {} |-> <<>>]

\* DependencyGraph::new: node and edge indices count from 1 here, from 0 in petgraph
EmptyGraph == [nodes |-> <<>>, edges |-> <<>>, path_to_index |-> [p \in {} |-> 0]]

contains_file(g, path) == path \in DOMAIN g.path_to_index

get_file(g, path) == IF contains_file(g, path) THEN Some(g.nodes[g.path_to_index[path]]) ELSE None

get_dist_path(node) ==
  IF node.target_location = Omit THEN None
  ELSE IF file_name(node.path) = None THEN None
  ELSE LET filename == file_name(node.path).val
           tl == node.target_location
       IN CASE tl.tag = "Component" -> Some(<<<<"c", "o", "m", "p", "o", "n", "e", "n", "t", "s">>,
               tl.name, filename>>)
            [] tl.tag = "CssGlobal" -> Some(<<<<"s", "t", "y", "l", "e", "s">>, filename>>)
            [] tl.tag = "Asset" -> Some(<<<<"a", "s", "s", "e", "t", "s">>, filename>>)
            [] tl.tag = "Dependency" -> Some(<<<<"d", "e", "p", "e", "n", "d", "e", "n", "c", "i", "e", "s">>, filename>>)
            [] OTHER -> None

\* faulty variant: add_file that overwrites the kind and location of a node that exists
add_file_overwrite(g, path, file_type, target_location) ==
  IF contains_file(g, path)
  THEN [graph |-> [g EXCEPT !.nodes[g.path_to_index[path]] =
                              FileNode(path, file_type, target_location)],
        index |-> g.path_to_index[path]]
  ELSE LET index == Len(g.nodes) + 1
       IN [graph |-> [g EXCEPT !.nodes = Append(@, FileNode(path, file_type, target_location)),
                               !.path_to_index = MapInsert(@, path, index)],
           index |-> index]

add_file(g, path, file_type, target_location) ==
  IF contains_file(g, path)
  THEN [graph |-> g, index |-> g.path_to_index[path]]
  ELSE LET index == Len(g.nodes) + 1
       IN [graph |-> [g EXCEPT !.nodes = Append(@, FileNode(path, file_type, target_location)),
                               !.path_to_index = MapInsert(@, path, index)],
           index |-> index]

\* variants of add_dependency: upgrade_when names the condition under which the target
\* becomes Dependency, dedup says whether an edge equal to an existing one is dropped
UpgradeWhen(upgrade_when, file_type, target_location) ==
  CASE upgrade_when = "omit target" -> target_location = Omit
    [] upgrade_when = "never" -> FALSE
    [] upgrade_when = "other source" -> file_type # JsComponent
    [] OTHER -> file_type # JsComponent /\ target_location = Omit

add_dependency_with(g, from_file, to_file, import_statement, upgrade_when, dedup) ==
  IF ~contains_file(g, from_file)
  THEN [graph |-> g, ok |-> FALSE, err |-> "SourceFileNotFound", index |-> 0]
  ELSE IF ~contains_file(g, to_file)
  THEN [graph |-> g, ok |-> FALSE, err |-> "TargetFileNotFound", index |-> 0]
  ELSE LET from_idx == g.path_to_index[from_file]
           to_idx == g.path_to_index[to_file]
           nodes1 == IF UpgradeWhen(upgrade_when, g.nodes[from_idx].file_type,
                                 g.nodes[to_idx].target_location)
                     THEN [g.nodes EXCEPT ![to_idx].target_location = Dependency]
                     ELSE g.nodes
           edge == [source |-> from_idx, target |-> to_idx,
                    import_statement |-> import_statement]
           same == {k \in DOMAIN g.edges : g.edges[k] = edge}
       IN IF dedup /\ same # {}
          THEN [graph |-> [g EXCEPT !.nodes = nodes1],
                ok |-> TRUE, err |-> "", index |-> CHOOSE k \in same : TRUE]
          ELSE [graph |-> [g EXCEPT !.nodes = nodes1, !.edges = Append(@, edge)],
                ok |-> TRUE, err |-> "", index |-> Len(g.edges) + 1]

\* faulty variant: the target is upgraded whatever the kind of the source
add_dependency_no_kind_check(g, from_file, to_file, import_statement) ==
  add_dependency_with(g, from_file, to_file, import_statement,
                      "omit target", FALSE)

\* faulty variant: the target is never upgraded
add_dependency_no_upgrade(g, from_file, to_file, import_statement) ==
  add_dependency_with(g, from_file, to_file, import_statement,
                      "never", FALSE)

\* faulty variant: the target is set to Dependency whatever its location was
add_dependency_no_omit_check(g, from_file, to_file, import_statement) ==
  add_dependency_with(g, from_file, to_file, import_statement,
                      "other source", FALSE)

\* faulty variant: an edge equal to an existing one is not added again
add_dependency_dedup(g, from_file, to_file, import_statement) ==
  add_dependency_with(g, from_file, to_file, import_statement,
                      "as written", TRUE)

add_dependency(g, from_file, to_file, import_statement) ==
  IF ~contains_file(g, from_file)
  THEN [graph |-> g, ok |-> FALSE, err |-> "SourceFileNotFound", index |-> 0]
  ELSE IF ~contains_file(g, to_file)
  THEN [graph |-> g, ok |-> FALSE, err |-> "TargetFileNotFound", index |-> 0]
  ELSE LET from_idx == g.path_to_index[from_file]
           to_idx == g.path_to_index[to_file]
           from_file_type == g.nodes[from_idx].file_type
           to_target_location_is_omit == g.nodes[to_idx].target_location = Omit
           nodes1 == IF from_file_type # JsComponent /\ to_target_location_is_omit
                     THEN [g.nodes EXCEPT ![to_idx].target_location = Dependency]
                     ELSE g.nodes
           edge == [source |-> from_idx, target |-> to_idx,
                    import_statement |-> import_statement]
       IN [graph |-> [g EXCEPT !.nodes = nodes1, !.edges = Append(@, edge)],
           ok |-> TRUE, err |-> "", index |-> Len(g.edges) + 1]

\* edges_directed(idx, Outgoing): petgraph walks a node's edge list from the
\* edge added last to the edge added first
RECURSIVE OutgoingFrom(_, _, _)
OutgoingFrom(g, idx, k) ==
  IF k = 0 THEN <<>>
  ELSE IF g.edges[k].source = idx THEN <<g.edges[k]>> \o OutgoingFrom(g, idx, k - 1)
  ELSE OutgoingFrom(g, idx, k - 1)

edges_directed_outgoing(g, idx) == OutgoingFrom(g, idx, Len(g.edges))

get_file_dependencies(g, file_path) ==
  LET es == edges_directed_outgoing(g, g.path_to_index[file_path])
  IN [k \in DOMAIN es |->
        [path |-> g.nodes[es[k].target].path, import |-> es[k].import_statement]]

compute_relative_path(from_path, to_path) ==
  LET from_dir == IF parent(from_path) = None THEN <<>> ELSE parent(from_path).val
      rel == diff_paths(to_path, from_dir)
  IN IF rel # None
     THEN LET rel_str == PathString(rel.val)
          IN IF ~StartsWith(rel_str, <<".">>) THEN <<".", "/">> \o rel_str ELSE rel_str
     ELSE PathString(to_path)

RECURSIVE InsertReplacements(_, _, _, _, _)
InsertReplacements(g, deps, k, current_dist_path, replacements) ==
  IF k > Len(deps) THEN replacements
  ELSE LET target_file == get_file(g, deps[k].path).val
           target_dist_path == get_dist_path(target_file)
       IN IF target_dist_path # None
          THEN InsertReplacements(g, deps, k + 1, current_dist_path,
                 MapInsert(replacements, deps[k].import,
                           compute_relative_path(current_dist_path, target_dist_path.val)))
          ELSE InsertReplacements(g, deps, k + 1, current_dist_path, replacements)

\* Result<HashMap<String, String>, DependencyGraphError>
Err(e) == [ok |-> FALSE, err |-> e]
Ok(v) == [ok |-> TRUE, val |-> v]

get_dependencies_and_relative_paths(g, query_path, relative_from_path) ==
  IF ~contains_file(g, relative_from_path) THEN Err("FileNotFound")
  ELSE IF get_dist_path(get_file(g, relative_from_path).val) = None THEN Err("FileNotFound")
  ELSE IF ~contains_file(g, query_path) THEN Err("FileNotFound")
  ELSE Ok(InsertReplacements(g, get_file_dependencies(g, query_path), 1,
                             get_dist_path(get_file(g, relative_from_path).val).val, EmptyMap))

get_import_replacements(g, file_path) ==
  get_dependencies_and_relative_paths(g, file_path, file_path)

get_omitted_imports(g, path) ==
  IF ~contains_file(g, path) THEN <<>>
  ELSE LET es == edges_directed_outgoing(g, g.path_to_index[path])
           omitted == SelectSeq(es, LAMBDA e : g.nodes[e.target].target_location = Omit)
       IN [k \in DOMAIN omitted |->
             [import |-> omitted[k].import_statement, path |-> g.nodes[omitted[k].target].path]]

(***************************************************************************)
(* The graph operations of the specification, called in any order          *)
(***************************************************************************)
MaxEdges == 2

N_x_mjs == <<"x", ".", "m", "j", "s">>
N_h_css == <<".", "h", ".", "c", "s", "s">>
D_a == <<"a">>

GraphPaths == {<<D_a, N_x_mjs>>, <<D_a, N_h_css>>}

\* the (file_type, target_location) pairs a path is first added with
NewFileInputs(path) ==
  CASE path = <<D_a, N_x_mjs>> -> {<<JsComponent, Component(D_a)>>, <<JsFile, Dependency>>}
    [] OTHER -> {<<CssFile, Omit>>, <<CssFile, CssGlobal>>, <<OpaqueFile, Asset>>}

\* the pairs add_file is called with
FileInputs == UNION {NewFileInputs(path) : path \in GraphPaths}

ImportTexts == {<<"p">>, <<"q">>}

\* the last call: its arguments, its result, and the target's location before it
NoCall ==
  [op |-> "new", from_file |-> <<>>, to_file |-> <<>>, import_statement |-> <<>>,
   file_type |-> "", target_location |-> None,
   ok |-> TRUE, existed |-> FALSE, index |-> 0, before |-> None]

Idle == build = "idle" /\ jar = "idle" /\ out = "idle" /\ call = "idle"

Init == dep_graph = EmptyGraph /\ last = NoCall /\ Idle

AddFile(path, file_type, target_location) ==
  LET r == add_file(dep_graph, path, file_type, target_location)
  IN /\ \/ contains_file(dep_graph, path)
        \/ <<file_type, target_location>> \in NewFileInputs(path)
     /\ dep_graph' = r.graph
     /\ last' = [op |-> "add_file", from_file |-> path, to_file |-> path,
                 import_statement |-> <<>>,
                 file_type |-> file_type, target_location |-> Some(target_location),
                 ok |-> TRUE, existed |-> contains_file(dep_graph, path),
                 index |-> r.index, before |-> None]
     /\ UNCHANGED <<build, jar, out, call>>

AddDependency(from_file, to_file, import_statement) ==
  LET r == add_dependency(dep_graph, from_file, to_file, import_statement)
  IN /\ Len(dep_graph.edges) < MaxEdges
     /\ dep_graph' = r.graph
     /\ last' = [op |-> "add_dependency", from_file |-> from_file, to_file |-> to_file,
                 import_statement |-> import_statement,
                 file_type |-> "", target_location |-> None,
                 ok |-> r.ok, existed |-> FALSE, index |-> r.index,
                 before |-> IF contains_file(dep_graph, to_file)
                            THEN Some(get_file(dep_graph, to_file).val.target_location)
                            ELSE None]
     /\ UNCHANGED <<build, jar, out, call>>

Next ==
  \/ \E path \in GraphPaths, input \in FileInputs : AddFile(path, input[1], input[2])
  \/ \E from_file \in GraphPaths, to_file \in GraphPaths, import_statement \in ImportTexts :
       AddDependency(from_file, to_file, import_statement)

Spec == Init /\ [][Next]_vars

(***************************************************************************)
(* Claims about the graph operations                                       *)
(***************************************************************************)
NodeOf(g, path) == g.nodes[g.path_to_index[path]]

EdgeRuleLocation(a, b) ==
  IF a.file_type # JsComponent /\ b.target_location = Omit
  THEN Dependency
  ELSE b.target_location

\* C1 as stated: a successful add_dependency(A, B, text) sets B's location by the
\* edge-insertion rule and changes neither A's kind nor A's location.
C1_EdgeRuleSourceUntouched ==
  [][(last'.op = "add_dependency" /\ last'.ok) =>
       LET a == NodeOf(dep_graph, last'.from_file)
           b == NodeOf(dep_graph, last'.to_file)
           a2 == NodeOf(dep_graph', last'.from_file)
           b2 == NodeOf(dep_graph', last'.to_file)
       IN /\ b2.target_location = EdgeRuleLocation(a, b)
          /\ a2.file_type = a.file_type
          /\ a2.target_location = a.target_location]_vars

\* C1 amended: a successful add_dependency(A, B, text) sets B's location by the
\* edge-insertion rule, never changes A's kind, and leaves A's location alone
\* unless A is B (a self-edge, where the rule applies to A as the target).
C1_EdgeRule ==
  [][(last'.op = "add_dependency" /\ last'.ok) =>
       LET a == NodeOf(dep_graph, last'.from_file)
           b == NodeOf(dep_graph, last'.to_file)
           a2 == NodeOf(dep_graph', last'.from_file)
           b2 == NodeOf(dep_graph', last'.to_file)
       IN /\ b2.target_location = EdgeRuleLocation(a, b)
          /\ a2.file_type = a.file_type
          /\ (last'.from_file # last'.to_file => a2.target_location = a.target_location)]_vars

\* an edge from a non-component to a target that was Omit has just been added
C1_Witness ==
  /\ last.op = "add_dependency" /\ last.ok
  /\ last.before = Some(Omit)
  /\ last.from_file # last.to_file
  /\ NodeOf(dep_graph, last.from_file).file_type = JsFile
  /\ NodeOf(dep_graph, last.to_file).target_location = Dependency

\* C2: a node whose location is Omit has in-edges from JsComponent nodes only.
C2_OmitOnlyFromComponents ==
  \A k \in DOMAIN dep_graph.edges :
    LET e == dep_graph.edges[k]
    IN dep_graph.nodes[e.target].target_location = Omit =>
         dep_graph.nodes[e.source].file_type = JsComponent

\* an Omit node with an in-edge exists, right after an add_dependency
C2_Witness ==
  /\ last.op = "add_dependency" /\ last.ok
  /\ \E k \in DOMAIN dep_graph.edges :
       /\ dep_graph.nodes[dep_graph.edges[k].target].target_location = Omit
       /\ dep_graph.nodes[dep_graph.edges[k].source].file_type = JsComponent

\* C3: no step changes an existing node's path or kind, and a location changes
\* only from Omit to Dependency.
C3_KindFixedLocationUpgradesOnce ==
  [][\A i \in DOMAIN dep_graph.nodes :
       /\ i \in DOMAIN dep_graph'.nodes
       /\ dep_graph'.nodes[i].path = dep_graph.nodes[i].path
       /\ dep_graph'.nodes[i].file_type = dep_graph.nodes[i].file_type
       /\ \/ dep_graph'.nodes[i].target_location = dep_graph.nodes[i].target_location
          \/ /\ dep_graph.nodes[i].target_location = Omit
             /\ dep_graph'.nodes[i].target_location = Dependency]_vars

\* a node that was upgraded earlier is the target of one more edge from a non-component
C3_Witness ==
  /\ last.op = "add_dependency" /\ last.ok
  /\ last.before = Some(Dependency)
  /\ NodeOf(dep_graph, last.to_file).file_type = CssFile
  /\ NodeOf(dep_graph, last.from_file).file_type # JsComponent
  /\ NodeOf(dep_graph, last.to_file).target_location = Dependency

\* C4: add_file on a path that is present returns its index and changes nothing.
C4_AddFileIdempotent ==
  [][(last'.op = "add_file" /\ last'.existed) =>
       /\ last'.index = dep_graph.path_to_index[last'.from_file]
       /\ dep_graph' = dep_graph]_vars

\* add_file was called again for a node with edges, with another kind and location
C4_Witness ==
  /\ last.op = "add_file" /\ last.existed
  /\ dep_graph.edges # <<>>
  /\ NodeOf(dep_graph, last.from_file).file_type # last.file_type
  /\ Some(NodeOf(dep_graph, last.from_file).target_location) # last.target_location

\* C6: add_dependency with a missing endpoint fails and changes nothing; with both
\* present it appends exactly one edge, also when an equal edge is there already.
C6_EndpointsRequiredNoDedup ==
  [][last'.op = "add_dependency" =>
       IF contains_file(dep_graph, last'.from_file) /\ contains_file(dep_graph, last'.to_file)
       THEN /\ last'.ok
            /\ dep_graph'.edges =
                 Append(dep_graph.edges,
                        [source |-> dep_graph.path_to_index[last'.from_file],
                         target |-> dep_graph.path_to_index[last'.to_file],
                         import_statement |-> last'.import_statement])
            /\ last'.index = Len(dep_graph.edges) + 1
       ELSE /\ ~last'.ok
            /\ dep_graph' = dep_graph]_vars

\* the edge just added equals an edge that was already there
C6_Witness ==
  /\ last.op = "add_dependency" /\ last.ok
  /\ Len(dep_graph.edges) >= 2
  /\ \E k \in 1..(Len(dep_graph.edges) - 1) :
       dep_graph.edges[k] = dep_graph.edges[Len(dep_graph.edges)]

\* a call with a missing endpoint was refused
C6_RefusedWitness == last.op = "add_dependency" /\ ~last.ok /\ dep_graph.nodes # <<>>

(***************************************************************************)
(* Claims about the replacement map                                        *)
(***************************************************************************)
\* the path a reference v written in the file at dist path from_path points at
ResolveFrom(from_path, v) ==
  normalize_path(join(SubSeq(from_path, 1, Len(from_path) - 1), PathFrom(v)))

\* the out-edges of the node at idx whose target has a dist path
EmittedOutEdges(g, idx) ==
  {k \in DOMAIN g.edges :
     g.edges[k].source = idx /\ get_dist_path(g.nodes[g.edges[k].target]) # None}

\* the keys of F's replacement map are the texts of F's out-edges to nodes that are
\* not Omit, and each value is a path that leads from F's dist path to the dist path
\* of such a target
ReplacementsPointAtTargets(g, i) ==
  LET r == get_import_replacements(g, g.nodes[i].path)
  IN /\ r.ok
     /\ DOMAIN r.val = {g.edges[k].import_statement : k \in EmittedOutEdges(g, i)}
     /\ \A t \in DOMAIN r.val :
          \E k \in EmittedOutEdges(g, i) :
            /\ g.edges[k].import_statement = t
            /\ ResolveFrom(get_dist_path(g.nodes[i]).val, r.val[t])
                 = get_dist_path(g.nodes[g.edges[k].target]).val

ReplacementsAreDotRelative(g, i) ==
  LET r == get_import_replacements(g, g.nodes[i].path)
  IN \A t \in DOMAIN r.val :
       StartsWith(r.val[t], <<".", "/">>) \/ StartsWith(r.val[t], <<".", ".", "/">>)

\* C7 as stated: for every file with a dist path the replacement map has exactly the
\* texts of the out-edges to non-Omit targets as keys, each value leads to the target's
\* dist path, and each value begins with "./" or "../".
C7_ReplacementMap ==
  \A i \in DOMAIN dep_graph.nodes :
    get_dist_path(dep_graph.nodes[i]) # None =>
      ReplacementsPointAtTargets(dep_graph, i) /\ ReplacementsAreDotRelative(dep_graph, i)

\* the part of C7 the code keeps: keys and targets
C7_KeysAndTargets ==
  \A i \in DOMAIN dep_graph.nodes :
    get_dist_path(dep_graph.nodes[i]) # None => ReplacementsPointAtTargets(dep_graph, i)

(***************************************************************************)
(* JarResolver (utils/jar_resolver.rs)                                     *)
(*                                                                         *)
(* A manifest is a sequence of lines.  A line is kept by what the parser   *)
(* tells apart: a conditional, an #endif, an #include, a jar declaration,  *)
(* a registration (its whitespace-separated parts) or a file mapping (its  *)
(* destination and the optional source in parentheses).                    *)
(***************************************************************************)
IfdefLine(flag) == [kind |-> "ifdef", flag |-> flag]
EndifLine == [kind |-> "endif"]
IncludeLine(path) == [kind |-> "include", path |-> path]
JarLine(name) == [kind |-> "jar", name |-> name]
RegistrationLine(parts) == [kind |-> "registration", parts |-> parts]
FileLine(destination, source) == [kind |-> "file", destination |-> destination, source |-> source]

S_content == <<"c", "o", "n", "t", "e", "n", "t">>
S_chrome == <<"c", "h", "r", "o", "m", "e", ":", "/", "/">>
S_resource == <<"r", "e", "s", "o", "u", "r", "c", "e", ":", "/", "/">>

\* str::trim_start_matches(c)
RECURSIVE trim_start_matches(_, _)
trim_start_matches(s, c) ==
  IF s # <<>> /\ s[1] = c THEN trim_start_matches(Tail(s), c) ELSE s

\* str::trim_end_matches(c)
RECURSIVE trim_end_matches(_, _)
trim_end_matches(s, c) ==
  IF s # <<>> /\ s[Len(s)] = c THEN trim_end_matches(SubSeq(s, 1, Len(s) - 1), c) ELSE s

\* file_utils::make_relative_to_cwd
make_relative_to_cwd(cwd, path) ==
  LET d == diff_paths(path, cwd)
  IN normalize_path(IF d.some THEN d.val ELSE path)

\* the flags JarResolver::new knows (no ifdef_config is passed by transform_lib)
F_ANDROID ==
  <<"A", "N", "D", "R", "O", "I", "D">>

default_ifdef_config ==
  [f \in {<<"M", "O", "Z", "I", "L", "L", "A", "_", "O", "F", "F", "I", "C", "I", "A", "L">>,
          F_ANDROID,
          <<"M", "O", "Z", "_", "G", "L", "E", "A", "N", "_", "A", "N", "D", "R", "O", "I", "D">>,
          <<"M", "O", "Z", "_", "F", "E", "N", "N", "E", "C">>,
          <<"X", "P", "_", "M", "A", "C", "O", "S", "X">>,
          <<"R", "E", "L", "E", "A", "S", "E", "_", "O", "R", "_", "B", "E", "T", "A">>}
     |-> f \in {<<"M", "O", "Z", "I", "L", "L", "A", "_", "O", "F", "F", "I", "C", "I", "A", "L">>,
             <<"R", "E", "L", "E", "A", "S", "E", "_", "O", "R", "_", "B", "E", "T", "A">>}]

ChromeRegistration(registration_type, package_name, provider_name, path, flags) ==
  [registration_type |-> registration_type, package_name |-> package_name,
   provider_name |-> provider_name, path |-> path, flags |-> flags]

\* parse_registration_line: the registrations after the line with these parts
parse_registration_line(parts, chrome_registrations) ==
  IF Len(parts) < 3 THEN chrome_registrations
  ELSE IF parts[1] = S_content
  THEN MapInsert(chrome_registrations, parts[1] \o <<":">> \o parts[2],
                 ChromeRegistration(parts[1], parts[2], <<>>, parts[3],
                                    SubSeq(parts, 4, Len(parts))))
  ELSE IF Len(parts) < 4 THEN chrome_registrations
  ELSE MapInsert(chrome_registrations, parts[1] \o <<":">> \o parts[2],
                 ChromeRegistration(parts[1], parts[2], parts[3], parts[4],
                                    SubSeq(parts, 5, Len(parts))))

\* build_chrome_url: values_order is the order in which the HashMap hands out the
\* registrations; the first one of the right type whose path prefixes the destination
\* makes the URL
RECURSIVE build_chrome_url_from(_, _, _, _)
build_chrome_url_from(destination, chrome_registrations, values_order, k) ==
  IF k > Len(values_order) THEN None
  ELSE IF values_order[k] \notin DOMAIN chrome_registrations
  THEN build_chrome_url_from(destination, chrome_registrations, values_order, k + 1)
  ELSE LET registration == chrome_registrations[values_order[k]]
           chrome_type == SplitSlash(destination)[1]
           reg_path == trim_end_matches(trim_start_matches(registration.path, "%"), "/")
       IN IF registration.registration_type = chrome_type /\ StartsWith(destination, reg_path)
          THEN Some(S_chrome \o registration.package_name \o <<"/">> \o chrome_type \o <<"/">>
                      \o trim_start_matches(StripPrefix(destination, reg_path), "/"))
          ELSE build_chrome_url_from(destination, chrome_registrations, values_order, k + 1)

build_chrome_url(destination, chrome_registrations, values_order) ==
  build_chrome_url_from(destination, chrome_registrations, values_order, 1)

\* parse_file_line: the mappings after a file line
parse_file_line(destination, source, jar_dir, firefox_dir, cwd, mappings, chrome_registrations, values_order) ==
  LET source_path ==
        IF source.some
        THEN IF StartsWith(source.val, <<"/">>)
             THEN Ok(PathFrom(StripPrefix(source.val, <<"/">>)))
             ELSE Ok(join(jar_dir, PathFrom(source.val)))
        ELSE LET filename == file_name(PathFrom(destination))
             IN IF filename.some THEN Ok(join(jar_dir, <<filename.val>>))
                ELSE Err("InvalidChromeUrl")
      chrome_url == build_chrome_url(destination, chrome_registrations, values_order)
  IN IF ~source_path.ok THEN [ok |-> FALSE, err |-> source_path.err, mappings |-> mappings]
     ELSE IF chrome_url.some
     THEN [ok |-> TRUE,
           mappings |-> MapInsert(mappings, chrome_url.val,
                          make_relative_to_cwd(cwd, join(firefox_dir, source_path.val)))]
     ELSE [ok |-> TRUE, mappings |-> mappings]

\* faulty variant: #endif includes again whatever the enclosing conditions are
RECURSIVE parse_jar_lines_endif_includes(_, _, _, _, _, _, _, _)
parse_jar_lines_endif_includes(lines, i, jar_dir, firefox_dir, cwd, ifdef_config, values_order, st) ==
  IF i > Len(lines) THEN [st EXCEPT !.ok = TRUE]
  ELSE
    LET line == lines[i]
        go(next) == parse_jar_lines_endif_includes(lines, i + 1, jar_dir, firefox_dir, cwd, ifdef_config,
                                    values_order, next)
    IN IF line.kind \in {"ifdef", "ifndef"}
       THEN IF line.flag \notin DOMAIN ifdef_config
            THEN [st EXCEPT !.ok = FALSE, !.err = "UnknownIfdefCondition"]
            ELSE LET should_include == IF line.kind = "ifdef" THEN ifdef_config[line.flag]
                                       ELSE ~ifdef_config[line.flag]
                 IN go([st EXCEPT !.ifdef_stack = Append(@, st.currently_included),
                                  !.currently_included = @ /\ should_include])
       ELSE IF line.kind = "endif"
       THEN IF st.ifdef_stack = <<>>
            THEN [st EXCEPT !.ok = FALSE, !.err = "UnmatchedEndif"]
            ELSE go([st EXCEPT !.currently_included = TRUE,
                               !.ifdef_stack = SubSeq(@, 1, Len(@) - 1)])
       ELSE IF line.kind = "include" \/ ~st.currently_included THEN go(st)
       ELSE IF line.kind = "jar" THEN go([st EXCEPT !.current_jar = Some(line.name)])
       ELSE IF line.kind = "registration"
       THEN go([st EXCEPT !.chrome_registrations = parse_registration_line(line.parts, @)])
       ELSE IF line.kind = "file" /\ st.current_jar.some
       THEN LET r == parse_file_line(line.destination, line.source, jar_dir, firefox_dir,
                                     cwd, st.mappings, st.chrome_registrations, values_order)
            IN IF r.ok THEN go([st EXCEPT !.mappings = r.mappings])
               ELSE [st EXCEPT !.ok = FALSE, !.err = r.err]
       ELSE go(st)

\* parse_jar_file from line i on: st holds current_jar, ifdef_stack, currently_included
\* and the two maps the function fills; the result says whether it returned Ok and
\* holds the maps as it left them
RECURSIVE parse_jar_lines(_, _, _, _, _, _, _, _)
parse_jar_lines(lines, i, jar_dir, firefox_dir, cwd, ifdef_config, values_order, st) ==
  IF i > Len(lines) THEN [st EXCEPT !.ok = TRUE]
  ELSE
    LET line == lines[i]
        go(next) == parse_jar_lines(lines, i + 1, jar_dir, firefox_dir, cwd, ifdef_config,
                                    values_order, next)
    IN IF line.kind \in {"ifdef", "ifndef"}
       THEN IF line.flag \notin DOMAIN ifdef_config
            THEN [st EXCEPT !.ok = FALSE, !.err = "UnknownIfdefCondition"]
            ELSE LET should_include == IF line.kind = "ifdef" THEN ifdef_config[line.flag]
                                       ELSE ~ifdef_config[line.flag]
                 IN go([st EXCEPT !.ifdef_stack = Append(@, st.currently_included),
                                  !.currently_included = @ /\ should_include])
       ELSE IF line.kind = "endif"
       THEN IF st.ifdef_stack = <<>>
            THEN [st EXCEPT !.ok = FALSE, !.err = "UnmatchedEndif"]
            ELSE go([st EXCEPT !.currently_included = st.ifdef_stack[Len(st.ifdef_stack)],
                               !.ifdef_stack = SubSeq(@, 1, Len(@) - 1)])
       ELSE IF line.kind = "include" \/ ~st.currently_included THEN go(st)
       ELSE IF line.kind = "jar" THEN go([st EXCEPT !.current_jar = Some(line.name)])
       ELSE IF line.kind = "registration"
       THEN go([st EXCEPT !.chrome_registrations = parse_registration_line(line.parts, @)])
       ELSE IF line.kind = "file" /\ st.current_jar.some
       THEN LET r == parse_file_line(line.destination, line.source, jar_dir, firefox_dir,
                                     cwd, st.mappings, st.chrome_registrations, values_order)
            IN IF r.ok THEN go([st EXCEPT !.mappings = r.mappings])
               ELSE [st EXCEPT !.ok = FALSE, !.err = r.err]
       ELSE go(st)

parse_jar_file(lines, jar_path, firefox_dir, cwd, mappings, chrome_registrations, ifdef_config, values_order) ==
  LET jar_dir == parent(jar_path)
  IN parse_jar_lines(lines, 1, IF jar_dir.some THEN jar_dir.val ELSE <<>>, firefox_dir, cwd,
                     ifdef_config, values_order,
                     [ok |-> TRUE, err |-> "", current_jar |-> None, ifdef_stack |-> <<>>,
                      currently_included |-> TRUE, mappings |-> mappings,
                      chrome_registrations |-> chrome_registrations])

\* process_includes: fs gives the lines of each file that can be read
RECURSIVE process_includes(_, _, _, _)
process_includes(content, jar_file_path, firefox_dir, fs) ==
  IF content = <<>> THEN Ok(<<>>)
  ELSE
    LET line == content[1]
        rest == process_includes(Tail(content), jar_file_path, firefox_dir, fs)
        jar_dir == parent(jar_file_path)
        full_include_path ==
          IF StartsWith(line.path, <<"/">>)
          THEN join(firefox_dir, PathFrom(StripPrefix(line.path, <<"/">>)))
          ELSE join(IF jar_dir.some THEN jar_dir.val ELSE <<>>, PathFrom(line.path))
    IN IF line.kind = "include"
       THEN IF full_include_path \in DOMAIN fs
            THEN LET processed_include ==
                       process_includes(fs[full_include_path], full_include_path,
                                        firefox_dir, fs)
                 IN IF ~processed_include.ok THEN processed_include
                    ELSE IF ~rest.ok THEN rest
                    ELSE Ok(processed_include.val \o rest.val)
            ELSE Err("IncludeFileNotFound")
       ELSE IF ~rest.ok THEN rest ELSE Ok(<<line>> \o rest.val)

\* JarResolver::new over the jar manifests from index k on (no moz.build files are
\* given): an include that cannot be read ends it with an error; an error of
\* parse_jar_file is printed and the loop goes on with the maps as they are
RECURSIVE JarResolver_new_from(_, _, _, _, _, _, _, _)
JarResolver_new_from(firefox_dir, jar_paths, k, fs, cwd, values_order, mappings, chrome_registrations) ==
  IF k > Len(jar_paths) THEN Ok([mappings |-> mappings])
  ELSE
    LET full_jar_path == join(firefox_dir, jar_paths[k])
        processed_content ==
          process_includes(fs[full_jar_path], full_jar_path, firefox_dir, fs)
        parsed == parse_jar_file(processed_content.val, jar_paths[k], firefox_dir, cwd,
                                 mappings, chrome_registrations, default_ifdef_config,
                                 values_order)
    IN IF full_jar_path \notin DOMAIN fs
       THEN JarResolver_new_from(firefox_dir, jar_paths, k + 1, fs, cwd, values_order,
                                 mappings, chrome_registrations)
       ELSE IF ~processed_content.ok THEN processed_content
       ELSE JarResolver_new_from(firefox_dir, jar_paths, k + 1, fs, cwd, values_order,
                                 parsed.mappings, parsed.chrome_registrations)

JarResolver_new(firefox_dir, jar_paths, fs, cwd, values_order) ==
  JarResolver_new_from(firefox_dir, jar_paths, 1, fs, cwd, values_order, EmptyMap, EmptyMap)

\* JarResolver::is_internal_url
is_internal_url(url) == StartsWith(url, S_chrome) \/ StartsWith(url, S_resource)

\* JarResolver::resolve_path
resolve_path(jar_resolver, url) ==
  IF ~is_internal_url(url) THEN Err("InvalidChromeUrl")
  ELSE IF url \in DOMAIN jar_resolver.mappings THEN Ok(jar_resolver.mappings[url])
  ELSE Err("NoMappingFound")

(***************************************************************************)
(* JarResolver::new run twice on the same manifest                         *)
(***************************************************************************)
MaxManifestLines == 4

ValuesOrders(S) ==
  {f \in [1..Cardinality(S) -> S] : \A x \in S : \E i \in 1..Cardinality(S) : f[i] = x}

CWD == <<ROOT, <<"w">>>>
D_ff == <<"f", "f">>
\* the firefox_root argument: relative to the working directory or absolute
FirefoxRoots == {<<D_ff>>, CWD \o <<D_ff>>}

JarPath == <<<<"b">>, <<"j", "a", "r", ".", "m", "n">>>>
S_i_inc == <<"i", ".", "i", "n", "c">>
S_m_inc == <<"m", ".", "i", "n", "c">>
\* % content b %content/b/   and   % content p %content/b/p/
RegBrowser == RegistrationLine(<<S_content, <<"b">>,
        <<"%", "c", "o", "n", "t", "e", "n", "t", "/", "b", "/">>>>)
RegPlaces == RegistrationLine(<<S_content, <<"p">>,
        <<"%", "c", "o", "n", "t", "e", "n", "t", "/", "b", "/", "p", "/">>>>)

\* the lines a manifest is made of
ManifestLines ==
  {JarLine(<<"x", ".", "j", "a", "r">>), RegBrowser, RegPlaces,
          FileLine(<<"c", "o", "n", "t", "e", "n", "t", "/", "b", "/", "p", "/", "f", ".", "j", "s">>, None),
   IfdefLine(F_ANDROID), IfdefLine(<<"Q">>), EndifLine,
   IncludeLine(S_m_inc), IncludeLine(S_i_inc)}

Manifests == UNION {[1..n -> ManifestLines] : n \in 0..MaxManifestLines}

\* the files that can be read: the manifest and the file i.inc next to it (m.inc is
\* missing)
JarFs(firefox_dir, manifest) ==
  LET full_jar_path == join(firefox_dir, JarPath)
      include_path == join(parent(full_jar_path).val, PathFrom(S_i_inc))
  IN [p \in {full_jar_path, include_path} |->
        IF p = full_jar_path THEN manifest ELSE <<RegBrowser>>]

RegistrationKeys == {S_content \o <<":">> \o <<"b">>, S_content \o <<":">> \o <<"p">>}

Pending == [done |-> FALSE]
Done(r) == [done |-> TRUE, result |-> r]

InitJar ==
  /\ dep_graph = EmptyGraph /\ last = NoCall /\ build = "idle" /\ out = "idle"
  /\ call = "idle"
  /\ \E firefox_dir \in FirefoxRoots, manifest \in Manifests :
       jar = [firefox_dir |-> firefox_dir, manifest |-> manifest,
              runs |-> [r \in 1..2 |-> Pending]]

\* one run of the pipeline's first step, JarResolver::new; values_order is the order
\* in which this run's registration table iterates
NewJarResolver(r, values_order) ==
  /\ ~jar.runs[r].done
  /\ jar' = [jar EXCEPT !.runs[r] =
               Done(JarResolver_new(jar.firefox_dir, <<JarPath>>,
                                    JarFs(jar.firefox_dir, jar.manifest), CWD, values_order))]
  /\ UNCHANGED <<dep_graph, last, build, out, call>>

NextJar == \E r \in 1..2, values_order \in ValuesOrders(RegistrationKeys) :
             NewJarResolver(r, values_order)

SpecJar == InitJar /\ [][NextJar]_vars

(***************************************************************************)
(* Claims about the URL map                                                *)
(***************************************************************************)
\* C8: two runs of JarResolver::new on the same manifest files, flags and firefox_root
\* end the same way and build the same URL map, whatever the iteration order of the
\* registration table in each run.
C8_SameUrlMapOnRerun ==
  (jar.runs[1].done /\ jar.runs[2].done) => jar.runs[1].result = jar.runs[2].result

\* the manifest with the lines of the readable include file spliced in
RECURSIVE Spliced(_)
Spliced(lines) ==
  IF lines = <<>> THEN <<>>
  ELSE IF lines[1] = IncludeLine(S_i_inc) THEN <<RegBrowser>> \o Spliced(Tail(lines))
  ELSE <<lines[1]>> \o Spliced(Tail(lines))

IncludesMissingFile(lines) == \E i \in DOMAIN lines : lines[i] = IncludeLine(S_m_inc)

NamesUnknownFlag(lines) ==
  \E i \in DOMAIN lines :
    lines[i].kind \in {"ifdef", "ifndef"} /\ lines[i].flag \notin DOMAIN default_ifdef_config

\* an #endif with no conditional open before it
HasUnmatchedEndif(lines) ==
  \E i \in DOMAIN lines :
    /\ lines[i].kind = "endif"
    /\ Cardinality({j \in 1..(i - 1) : lines[j].kind \in {"ifdef", "ifndef"}})
         <= Cardinality({j \in 1..(i - 1) : lines[j].kind = "endif"})

\* C9 as stated: when the manifest includes a missing file, names an unknown flag in
\* an #ifdef/#ifndef, or has an #endif with no open conditional, JarResolver::new
\* returns an error (and so hands no URL map to the rest of the pipeline).
C9_ManifestErrorsAreHard ==
  \A r \in 1..2 :
    (/\ jar.runs[r].done
     /\ \/ IncludesMissingFile(jar.manifest)
        \/ NamesUnknownFlag(Spliced(jar.manifest))
        \/ HasUnmatchedEndif(Spliced(jar.manifest)))
      => ~jar.runs[r].result.ok

\* the part of C9 the code keeps: a missing include is a hard error
C9_MissingIncludeIsHard ==
  \A r \in 1..2 :
    (jar.runs[r].done /\ IncludesMissingFile(jar.manifest)) => ~jar.runs[r].result.ok

(***************************************************************************)
(* The source tree and PathFinder (utils/path_finder.rs)                   *)
(***************************************************************************)
\* str::contains
Contains(s, sub) == \E i \in 0..(Len(s) - Len(sub)) : SubSeq(s, i + 1, i + Len(sub)) = sub

\* the position of the last c in s, 0 when there is none
LastIndexOf(s, c) ==
  IF \E i \in DOMAIN s : s[i] = c
  THEN CHOOSE i \in DOMAIN s : s[i] = c /\ \A j \in (i + 1)..Len(s) : s[j] # c
  ELSE 0

\* Path::new(s).extension(): what follows the last '.' of the file name, when the
\* file name has a '.' that is not its first character
extension(s) ==
  LET name == file_name(PathFrom(s))
  IN IF ~name.some THEN None
     ELSE LET dot == LastIndexOf(name.val, ".")
          IN IF dot <= 1 THEN None ELSE Some(SubSeq(name.val, dot + 1, Len(name.val)))

\* fs::canonicalize in a tree without symbolic links: the absolute path with "." and
\* ".." resolved, when something is there
RECURSIVE resolve_dots(_, _, _)
resolve_dots(p, i, stack) ==
  IF i > Len(p) THEN stack
  ELSE IF p[i] = DOT THEN resolve_dots(p, i + 1, stack)
  ELSE IF p[i] = DOTDOT
  THEN resolve_dots(p, i + 1, IF Len(stack) > 1 THEN SubSeq(stack, 1, Len(stack) - 1) ELSE stack)
  ELSE resolve_dots(p, i + 1, Append(stack, p[i]))

absolute(cwd, p) == resolve_dots(IF is_absolute(p) THEN p ELSE cwd \o p, 1, <<>>)

\* the folders of a set of files
RECURSIVE Ancestors(_)
Ancestors(p) == IF Len(p) <= 1 THEN {p} ELSE {p} \cup Ancestors(SubSeq(p, 1, Len(p) - 1))

\* Path::exists
exists(files, cwd, p) == \E f \in files : absolute(cwd, p) \in Ancestors(f)

canonicalize(files, cwd, p) ==
  IF exists(files, cwd, p) THEN Ok(absolute(cwd, p)) ELSE Err("NotFound")

\* PathFinder::manually_resolve_path
RECURSIVE manually_resolve_from(_, _, _)
manually_resolve_from(p, i, components) ==
  IF i > Len(p) THEN components
  ELSE IF p[i] = DOT THEN manually_resolve_from(p, i + 1, components)
  ELSE IF p[i] = DOTDOT
  THEN manually_resolve_from(p, i + 1,
         IF components # <<>> THEN SubSeq(components, 1, Len(components) - 1) ELSE components)
  ELSE manually_resolve_from(p, i + 1, Append(components, p[i]))

manually_resolve_path(p) == manually_resolve_from(p, 1, <<>>)

\* PathFinder::is_relative_path
is_relative_path(import_string) ==
  \/ StartsWith(import_string, <<".", "/">>)
  \/ StartsWith(import_string, <<".", ".", "/">>)
  \/ StartsWith(import_string, <<"/">>)
  \/ /\ ~Contains(import_string, <<":", "/", "/">>)
     /\ \/ \E e \in {<<".", "j", "s">>, <<".", "c", "s", "s">>, <<".", "t", "s">>,
             <<".", "j", "s", "x">>, <<".", "t", "s", "x">>} :
             EndsWith(import_string, e)
        \/ Contains(import_string, <<"/">>)

\* faulty variant: a text with a leading '/' is joined with the working directory
resolve_relative_path_from_cwd(files, cwd, current_file, import_string) ==
  LET current_dir == parent(current_file)
      resolved == IF StartsWith(import_string, <<"/">>)
                  THEN cwd \o Tail(PathFrom(import_string))
                  ELSE join(current_dir.val, PathFrom(import_string))
      canonical == canonicalize(files, cwd, resolved)
  IN IF ~current_dir.some THEN Err("RelativePathResolutionFailed")
     ELSE IF canonical.ok THEN canonical
     ELSE Ok(manually_resolve_path(resolved))

\* PathFinder::resolve_relative_path
resolve_relative_path(files, cwd, current_file, import_string) ==
  LET current_dir == parent(current_file)
      resolved == IF StartsWith(import_string, <<"/">>) THEN PathFrom(import_string)
                  ELSE join(current_dir.val, PathFrom(import_string))
      canonical == canonicalize(files, cwd, resolved)
  IN IF ~current_dir.some THEN Err("RelativePathResolutionFailed")
     ELSE IF canonical.ok THEN canonical
     ELSE Ok(manually_resolve_path(resolved))

\* PathFinder::get_path
get_path(jar_resolver, files, cwd, current_file, import_string) ==
  LET resolved_path ==
        IF is_internal_url(import_string)
        THEN LET r == resolve_path(jar_resolver, import_string)
             IN IF r.ok THEN r
                ELSE IF r.err = "NoMappingFound" THEN Err("ChromeMappingNotFound")
                ELSE Err("UnsupportedImportFormat")
        ELSE IF is_relative_path(import_string)
        THEN resolve_relative_path(files, cwd, current_file, import_string)
        ELSE Err("UnsupportedImportFormat")
  IN IF import_string = <<>> THEN Err("EmptyImportString")
     ELSE IF ~resolved_path.ok THEN resolved_path
     ELSE IF ~exists(files, cwd, resolved_path.val) THEN Err("FileNotFound")
     ELSE Ok(make_relative_to_cwd(cwd, resolved_path.val))

(***************************************************************************)
(* Dependency extraction (dependencies/js.rs, dependencies/css.rs)         *)
(*                                                                         *)
(* A source file is the sequence of the places in it that name another     *)
(* file, each kept by its syntactic kind and its text.  In a script:       *)
(*   "import"   the source of an import declaration                        *)
(*   "link"     <link rel="stylesheet" href="text"> in an html template of *)
(*              a class method                                             *)
(*   "src", "iconsrc", "href"   an attribute text="..." in an html template*)
(*   "array", "object"   a string literal that is an array element or a    *)
(*              property value                                             *)
(*   "literal"  any other string literal                                   *)
(* In a stylesheet: "url" (a url() value) and "import" (an @import rule).  *)
(* Each template place is a template element of its own.                   *)
(***************************************************************************)
Site(kind, text) == [kind |-> kind, text |-> text]

Alnum ==
  {"a", "b", "c", "d", "e", "f", "g", "h", "i", "j", "k", "l", "m", "n", "o", "p",
   "q", "r", "s", "t", "u", "v", "w", "x", "y", "z", "A", "B", "C", "D", "E", "F",
   "G", "H", "I", "J", "K", "L", "M", "N", "O", "P", "Q", "R", "S", "T", "U", "V",
   "W", "X", "Y", "Z", "0", "1", "2", "3", "4", "5", "6", "7", "8", "9"}

\* the regex [^"']+\.[a-zA-Z0-9]+ matched against a whole attribute value
EndsWithExtension(text) ==
  \E dot \in 2..(Len(text) - 1) :
    text[dot] = "." /\ \A j \in (dot + 1)..Len(text) : text[j] \in Alnum

\* DependencyVisitor::extract_any_link_from_html for one attribute value
extract_any_link_from_html(text) ==
  IF /\ EndsWithExtension(text)
     /\ \/ StartsWith(text, S_chrome) \/ StartsWith(text, S_resource)
        \/ ~(StartsWith(text, <<"h", "t", "t", "p", ":", "/", "/">>) \/ StartsWith(text,
                <<"h", "t", "t", "p", "s", ":", "/", "/">>) \/ StartsWith(text,
                <<"w", "w", "w", ".">>))
  THEN <<text>> ELSE <<>>

\* what the DependencyVisitor pushes at one place of a script
visit_site(site) ==
  CASE site.kind = "import" -> <<site.text>>
    [] site.kind = "link" -> <<site.text>> \o extract_any_link_from_html(site.text)
    [] site.kind \in {"src", "iconsrc", "href"} -> extract_any_link_from_html(site.text)
    [] OTHER -> IF StartsWith(site.text, S_chrome) \/ StartsWith(site.text, S_resource)
                THEN <<site.text>> ELSE <<>>

\* dependencies::js::dependencies_from_string
RECURSIVE js_dependencies_from_string(_)
js_dependencies_from_string(sites) ==
  IF sites = <<>> THEN <<>>
  ELSE SelectSeq(visit_site(sites[1]), LAMBDA dep : dep # <<>>)
         \o js_dependencies_from_string(Tail(sites))

\* the text up to the first '?' or '#'
clean_url(url) ==
  IF \E i \in DOMAIN url : url[i] \in {"?", "#"}
  THEN SubSeq(url, 1, (CHOOSE i \in DOMAIN url :
                         url[i] \in {"?", "#"} /\ \A j \in 1..(i - 1) : url[j] \notin {"?",
                                 "#"}) - 1)
  ELSE url

is_external_url(url) ==
  \/ StartsWith(url, <<"d", "a", "t", "a", ":">>) \/ StartsWith(url,
          <<"h", "t", "t", "p", ":", "/", "/">>) \/ StartsWith(url,
          <<"h", "t", "t", "p", "s", ":", "/", "/">>)
  \/ StartsWith(url, <<"/", "/">>)

\* UrlVisitor::add_dependency and RuleVisitor::add_dependency over the places of one
\* kind, in order
RECURSIVE css_visit(_, _, _)
css_visit(sites, kind, dependencies) ==
  IF sites = <<>> THEN dependencies
  ELSE LET url == sites[1].text
           seen == {dependencies[i] : i \in DOMAIN dependencies}
       IN css_visit(Tail(sites), kind,
            IF sites[1].kind # kind \/ is_external_url(url) \/ clean_url(url) \in seen
            THEN dependencies ELSE Append(dependencies, clean_url(url)))

\* dependencies::css::dependencies_from_string
css_dependencies_from_string(sites) ==
  SelectSeq(css_visit(sites, "url", <<>>), LAMBDA dep : dep # <<>>)
    \o SelectSeq(css_visit(sites, "import", <<>>), LAMBDA dep : dep # <<>>)

(***************************************************************************)
(* transform_lib (lib.rs): building the graph                              *)
(***************************************************************************)
\* glob(firefox_root/dir/*): the files of folder dir, in the alphabetical order glob
\* yields them, each under the firefox_root it was asked with; listing is the
\* tree's files by their paths under the firefox root, in alphabetical order
glob(firefox_root, dir, listing) ==
  LET in_dir == SelectSeq(listing, LAMBDA f : Len(f) = 2 /\ f[1] = dir)
  IN [i \in DOMAIN in_dir |-> firefox_root \o in_dir[i]]

\* process_components for one pattern whose matches are files
RECURSIVE process_components(_, _, _)
process_components(files, k, g) ==
  IF k > Len(files) THEN Ok(g)
  ELSE
    LET file_path == files[k]
        name == file_name(file_path)
        file_name_str == IF name.some THEN name.val ELSE <<>>
        file_type ==
          IF EndsWith(file_name_str,
                  <<".", "s", "t", "o", "r", "i", "e", "s", ".", "m", "j", "s">>)
                  \/ EndsWith(file_name_str, <<".", "s", "t", "o", "r", "y", ".", "m", "j", "s">>)
          THEN JsFile
          ELSE IF EndsWith(file_name_str, <<".", "m", "j", "s">>) THEN JsComponent
          ELSE OpaqueFile
        dir == parent(file_path)
        component_name == IF dir.some THEN file_name(dir.val) ELSE None
    IN IF EndsWith(file_name_str, <<".", "t", "s">>) \/ EndsWith(file_name_str,
            <<".", "c", "s", "s">>)
       THEN process_components(files, k + 1, g)
       ELSE IF ~component_name.some THEN Err("Failed to determine component folder")
       ELSE process_components(files, k + 1,
              add_file(g, file_path, file_type, Component(component_name.val)).graph)

\* process_global_stylesheets for one pattern
RECURSIVE process_global_stylesheets(_, _, _)
process_global_stylesheets(files, k, g) ==
  IF k > Len(files) THEN g
  ELSE process_global_stylesheets(files, k + 1, add_file(g, files[k], CssFile, CssGlobal).graph)

\* faulty variant: an import that does not resolve ends the loop over the deps of the file
RECURSIVE process_deps_stop_on_unresolved(_, _, _, _, _, _, _, _)
process_deps_stop_on_unresolved(deps, k, file, jar_resolver, files, cwd, processed, st) ==
  IF k > Len(deps) THEN st
  ELSE
    LET dep == deps[k]
        go(next) == process_deps_stop_on_unresolved(deps, k + 1, file, jar_resolver, files, cwd, processed, next)
        resolved_path == get_path(jar_resolver, files, cwd, file.path, dep)
        ext == extension(dep)
        dep_file_type ==
          IF ext = Some(<<"c", "s", "s">>) THEN CssFile
          ELSE IF ext \in {Some(<<"j", "s">>), Some(<<"m", "j", "s">>)} THEN JsFile
          ELSE OpaqueFile
        dep_target_location ==
          IF file.file_type = JsComponent /\ ext = Some(<<"c", "s", "s">>) THEN Omit
          ELSE IF ext \in {Some(<<"p", "n", "g">>), Some(<<"j", "p", "g">>),
                  Some(<<"j", "p", "e", "g">>), Some(<<"s", "v", "g">>)} THEN Asset
          ELSE Dependency
        g1 == add_file(st.dep_graph, resolved_path.val, dep_file_type, dep_target_location).graph
        r == add_dependency(g1, file.path, resolved_path.val, dep)
        queued == \E i \in DOMAIN st.to_process : st.to_process[i].path = resolved_path.val
    IN IF ~st.ok THEN st
       ELSE IF ~resolved_path.ok THEN st
       ELSE IF ~r.ok THEN [st EXCEPT !.ok = FALSE, !.dep_graph = g1]
       ELSE go([st EXCEPT
                  !.dep_graph = r.graph,
                  !.to_process =
                    IF resolved_path.val \notin processed /\ ~queued
                    THEN Append(@, get_file(r.graph, resolved_path.val).val) ELSE @])

\* faulty variant: a .mjs import is not taken for a script
RECURSIVE process_deps_mjs_opaque(_, _, _, _, _, _, _, _)
process_deps_mjs_opaque(deps, k, file, jar_resolver, files, cwd, processed, st) ==
  IF k > Len(deps) THEN st
  ELSE
    LET dep == deps[k]
        go(next) == process_deps_mjs_opaque(deps, k + 1, file, jar_resolver, files, cwd, processed, next)
        resolved_path == get_path(jar_resolver, files, cwd, file.path, dep)
        ext == extension(dep)
        dep_file_type ==
          IF ext = Some(<<"c", "s", "s">>) THEN CssFile
          ELSE IF ext = Some(<<"j", "s">>) THEN JsFile
          ELSE OpaqueFile
        dep_target_location ==
          IF file.file_type = JsComponent /\ ext = Some(<<"c", "s", "s">>) THEN Omit
          ELSE IF ext \in {Some(<<"p", "n", "g">>), Some(<<"j", "p", "g">>),
                  Some(<<"j", "p", "e", "g">>), Some(<<"s", "v", "g">>)} THEN Asset
          ELSE Dependency
        g1 == add_file(st.dep_graph, resolved_path.val, dep_file_type, dep_target_location).graph
        r == add_dependency(g1, file.path, resolved_path.val, dep)
        queued == \E i \in DOMAIN st.to_process : st.to_process[i].path = resolved_path.val
    IN IF ~st.ok THEN st
       ELSE IF ~resolved_path.ok THEN go(st)
       ELSE IF ~r.ok THEN [st EXCEPT !.ok = FALSE, !.dep_graph = g1]
       ELSE go([st EXCEPT
                  !.dep_graph = r.graph,
                  !.to_process =
                    IF resolved_path.val \notin processed /\ ~queued
                    THEN Append(@, get_file(r.graph, resolved_path.val).val) ELSE @])

\* process_dependencies, the loop over the deps of one file: st holds the graph and
\* the to_process list; processed is unchanged by the loop
RECURSIVE process_deps(_, _, _, _, _, _, _, _)
process_deps(deps, k, file, jar_resolver, files, cwd, processed, st) ==
  IF k > Len(deps) THEN st
  ELSE
    LET dep == deps[k]
        go(next) == process_deps(deps, k + 1, file, jar_resolver, files, cwd, processed, next)
        resolved_path == get_path(jar_resolver, files, cwd, file.path, dep)
        ext == extension(dep)
        dep_file_type ==
          IF ext = Some(<<"c", "s", "s">>) THEN CssFile
          ELSE IF ext \in {Some(<<"j", "s">>), Some(<<"m", "j", "s">>)} THEN JsFile
          ELSE OpaqueFile
        dep_target_location ==
          IF file.file_type = JsComponent /\ ext = Some(<<"c", "s", "s">>) THEN Omit
          ELSE IF ext \in {Some(<<"p", "n", "g">>), Some(<<"j", "p", "g">>),
                  Some(<<"j", "p", "e", "g">>), Some(<<"s", "v", "g">>)} THEN Asset
          ELSE Dependency
        g1 == add_file(st.dep_graph, resolved_path.val, dep_file_type, dep_target_location).graph
        r == add_dependency(g1, file.path, resolved_path.val, dep)
        queued == \E i \in DOMAIN st.to_process : st.to_process[i].path = resolved_path.val
    IN IF ~st.ok THEN st
       ELSE IF ~resolved_path.ok THEN go(st)
       ELSE IF ~r.ok THEN [st EXCEPT !.ok = FALSE, !.dep_graph = g1]
       ELSE go([st EXCEPT
                  !.dep_graph = r.graph,
                  !.to_process =
                    IF resolved_path.val \notin processed /\ ~queued
                    THEN Append(@, get_file(r.graph, resolved_path.val).val) ELSE @])

(***************************************************************************)
(* Transformation (transform/css.rs, transform/js.rs and the transformers) *)
(*                                                                         *)
(* The code written for a file is the sequence of its places after the     *)
(* rewrite; a stylesheet inlined into a component leaves its places, with  *)
(* kind "styles", at the end of the component's code.                      *)
(***************************************************************************)
\* faulty variant: the text after the base is not put back
css_replace_suffix_lost(site, url_replacements) ==
  LET base == IF site.kind = "url" THEN clean_url(site.text) ELSE site.text
  IN IF base \in DOMAIN url_replacements
     THEN Ok(Site(site.kind, url_replacements[base]))
     ELSE IF ~is_external_url(base) THEN Err("UrlNotFound")
     ELSE Ok(site)

\* UrlReplacerVisitor::visit_url and ImportReplacerVisitor::visit_rule at one place
css_replace(site, url_replacements) ==
  LET base == IF site.kind = "url" THEN clean_url(site.text) ELSE site.text
      suffix == SubSeq(site.text, Len(base) + 1, Len(site.text))
  IN IF base \in DOMAIN url_replacements
     THEN Ok(Site(site.kind, url_replacements[base] \o suffix))
     ELSE IF ~is_external_url(base) THEN Err("UrlNotFound")
     ELSE Ok(site)

\* transform::css::transform_from_string
css_transform_from_string(sites, url_replacements) ==
  IF \E i \in DOMAIN sites : ~css_replace(sites[i], url_replacements).ok
  THEN Err("UrlNotFound")
  ELSE Ok([i \in DOMAIN sites |-> css_replace(sites[i], url_replacements).val])

S_lit_all_mjs == <<"l", "i", "t", ".", "a", "l", "l", ".", "m", "j", "s">>

\* faulty variant: lit.all.mjs is looked up like every other import source
js_replace_lit_looked_up(site, url_replacements) ==
  CASE site.kind = "import" ->
         IF site.text \in DOMAIN url_replacements
         THEN Ok(Site("import", url_replacements[site.text]))
         ELSE Err("panic: URL replacement not found")
    [] site.kind \in {"src", "iconsrc"} ->
         IF site.text \in DOMAIN url_replacements
         THEN Ok(Site("src", url_replacements[site.text])) ELSE Ok(site)
    [] site.kind \in {"array", "object"} ->
         IF site.text \in DOMAIN url_replacements
         THEN Ok(Site(site.kind, url_replacements[site.text])) ELSE Ok(site)
    [] OTHER -> Ok(site)

\* what UrlTransformer and IconTemplateImportTransformer leave of one place
js_replace(site, url_replacements) ==
  CASE site.kind = "import" ->
         IF site.text = S_lit_all_mjs THEN Ok(site)
         ELSE IF site.text \in DOMAIN url_replacements
         THEN Ok(Site("import", url_replacements[site.text]))
         ELSE Err("panic: URL replacement not found")
    [] site.kind \in {"src", "iconsrc"} ->
         IF site.text \in DOMAIN url_replacements
         THEN Ok(Site("src", url_replacements[site.text])) ELSE Ok(site)
    [] site.kind \in {"array", "object"} ->
         IF site.text \in DOMAIN url_replacements
         THEN Ok(Site(site.kind, url_replacements[site.text])) ELSE Ok(site)
    [] OTHER -> Ok(site)

\* CssInlineTransformer: the stylesheet links whose href has a replacement
Inlined(site, css_replacements) ==
  site.kind = "link" /\ css_replacements.some /\ site.text \in DOMAIN css_replacements.val

\* CssInlineTransformer::add_styles_property: the css of the referenced hrefs, each once
RECURSIVE combined_css(_, _, _)
combined_css(sites, css_replacements, referenced_hrefs) ==
  IF sites = <<>> THEN <<>>
  ELSE IF Inlined(sites[1], css_replacements) /\ sites[1].text \notin referenced_hrefs
  THEN [i \in DOMAIN css_replacements.val[sites[1].text] |->
          Site("styles", css_replacements.val[sites[1].text][i].text)]
         \o combined_css(Tail(sites), css_replacements, referenced_hrefs \cup {sites[1].text})
  ELSE combined_css(Tail(sites), css_replacements, referenced_hrefs)

\* transform::js::transform_from_string (ImportCssTransformer changes the specifiers
\* of an import, not its source, and leaves no trace here)
js_transform_from_string(sites, url_replacements, css_replacements) ==
  LET kept == SelectSeq(sites, LAMBDA site : ~Inlined(site, css_replacements))
  IN IF \E i \in DOMAIN kept : ~js_replace(kept[i], url_replacements).ok
     THEN Err("panic: URL replacement not found")
     ELSE Ok([i \in DOMAIN kept |-> js_replace(kept[i], url_replacements).val]
               \o combined_css(sites, css_replacements, {}))

\* transform_and_write_files: the css_replacements of a component, from omitted_imports
\* fs::read_to_string: content gives the places of each file of the tree
read_to_string(content, cwd, path) == content[absolute(cwd, path)]

RECURSIVE css_replacements_from(_, _, _, _, _, _, _)
css_replacements_from(omitted_imports, k, g, file, content, cwd, css_replacements) ==
  IF k > Len(omitted_imports) THEN Ok(css_replacements)
  ELSE LET r_i == get_dependencies_and_relative_paths(g, omitted_imports[k].path, file.path)
           css_code == css_transform_from_string(read_to_string(content, cwd,
                   omitted_imports[k].path),
                                                 r_i.val)
       IN IF ~r_i.ok THEN Err("panic: unwrap")
          ELSE IF ~css_code.ok THEN Err("Failed to transform CSS file")
          ELSE css_replacements_from(omitted_imports, k + 1, g, file, content, cwd,
                 MapInsert(css_replacements, omitted_imports[k].import, css_code.val))

\* transform_and_write_files, the code written for one file
transformed_code(g, file, content, cwd) ==
  LET relative_imports == get_import_replacements(g, file.path)
      css_replacements ==
        IF file.file_type = JsComponent
        THEN css_replacements_from(get_omitted_imports(g, file.path), 1, g, file, content, cwd,
                                   EmptyMap)
        ELSE Ok(EmptyMap)
  IN IF file.file_type \in {JsComponent, JsFile}
     THEN IF ~relative_imports.ok THEN Err("panic: unwrap")
          ELSE IF ~css_replacements.ok THEN css_replacements
          ELSE js_transform_from_string(read_to_string(content, cwd, file.path),
                                        relative_imports.val,
                 IF file.file_type = JsComponent THEN Some(css_replacements.val) ELSE None)
     ELSE IF file.file_type = CssFile
     THEN IF ~relative_imports.ok THEN Err("panic: unwrap")
          ELSE css_transform_from_string(read_to_string(content, cwd, file.path),
                                         relative_imports.val)
     ELSE Ok(<<Site("copy", PathString(file.path))>>)

(***************************************************************************)
(* One run of transform_lib on a small source tree                         *)
(***************************************************************************)
MaxSites == 2

N_util_mjs == <<"u", "t", "i", "l", ".", "m", "j", "s">>

\* the files under the firefox root, in alphabetical order
Listing ==
  <<<<D_a, N_util_mjs>>, <<D_a, <<"x", ".", "c", "s", "s">>>>, <<D_a, N_x_mjs>>,
          <<<<"b">>, <<"j", "a", "r", ".", "m", "n">>>>,
    <<<<"d">>, <<"u", ".", "m", "j", "s">>>>, <<<<"i">>, <<"i", ".", "s", "v", "g">>>>, <<<<"s">>,
            <<"g", ".", "c", "s", "s">>>>>>

TreeFile(f) == CWD \o <<D_ff>> \o f
TreeFiles == {TreeFile(Listing[i]) : i \in DOMAIN Listing}

\* x.jar:  % content g %content/g/   content/g/i.svg (/i/i.svg)
LibManifest ==
  <<JarLine(<<"x", ".", "j", "a", "r">>),
    RegistrationLine(<<S_content, <<"g">>,
            <<"%", "c", "o", "n", "t", "e", "n", "t", "/", "g", "/">>>>),
    FileLine(<<"c", "o", "n", "t", "e", "n", "t", "/", "g", "/", "i", ".", "s", "v", "g">>,
            Some(<<"/", "i", "/", "i", ".", "s", "v", "g">>))>>
S_chrome_i_svg == <<"c", "h", "r", "o", "m", "e", ":", "/", "/", "g", "/", "c", "o", "n", "t", "e", "n", "t", "/", "i", ".", "s", "v", "g">>

\* the places a/x.mjs is made of
JsSites ==
  {Site("import", <<".", "/">> \o N_util_mjs),
   Site("import", <<".", ".", "/", "d", "/", "u", ".", "m", "j", "s">>),
   Site("import", <<".", "/", "z", ".", "m", "j", "s">>),
   Site("import", <<".", "/", "x", ".", "c", "s", "s">>),
   Site("link", <<".", "/", "x", ".", "c", "s", "s">>),
   Site("src", <<".", ".", "/", "i", "/", "i", ".", "s", "v", "g">>),
   Site("href", <<".", ".", "/", "i", "/", "i", ".", "s", "v", "g">>),
   Site("literal", S_chrome_i_svg),
   Site("array", S_chrome_i_svg)}

\* the contents of d/u.mjs and of s/g.css
ScriptContents == {<<>>, <<Site("link", <<".", ".", "/", "a", "/", "x", ".", "c", "s", "s">>)>>,
        <<Site("iconsrc", S_chrome_i_svg)>>}
StylesheetContents == {<<>>, <<Site("import",
        <<".", ".", "/", "a", "/", "x", ".", "c", "s", "s">>)>>}

Contents ==
  {[f \in TreeFiles |->
      CASE f = TreeFile(<<D_a, N_x_mjs>>) -> x
        [] f = TreeFile(<<<<"d">>, <<"u", ".", "m", "j", "s">>>>) -> u
        [] f = TreeFile(<<<<"s">>, <<"g", ".", "c", "s", "s">>>>) -> g
        [] f = TreeFile(<<D_a, <<"x", ".", "c", "s", "s">>>>) -> <<Site("url",
                <<".", ".", "/", "i", "/", "i", ".", "s", "v", "g", "#", "a">>)>>
        [] OTHER -> <<>>] :
     x \in UNION {[1..n -> JsSites] : n \in 0..MaxSites},
     u \in ScriptContents, g \in StylesheetContents}

InitLib ==
  /\ dep_graph = EmptyGraph /\ last = NoCall /\ call = "idle"
  /\ jar = [mappings |-> EmptyMap]
  /\ out = EmptyMap
  /\ \E firefox_root \in FirefoxRoots, content \in Contents :
       build = [stage |-> "new", firefox_root |-> firefox_root, content |-> content,
                to_process |-> <<>>, processed |-> {}, extracted |-> EmptyMap,
                next |-> 1, error |-> ""]

Fail(error) == build' = [build EXCEPT !.stage = "failed", !.error = error]

\* transform_lib up to the cleared output directory: the resolver is built
NewPathFinder(values_order) ==
  /\ build.stage = "new"
  /\ LET jr == JarResolver_new(build.firefox_root, <<JarPath>>,
                 [p \in {join(build.firefox_root, JarPath)} |-> LibManifest], CWD, values_order)
     IN IF jr.ok
        THEN jar' = jr.val /\ build' = [build EXCEPT !.stage = "components"]
        ELSE Fail("Failed to parse JAR mappings") /\ UNCHANGED jar
  /\ UNCHANGED <<dep_graph, last, out, call>>

\* process_components with component_paths = ["a/*"]
ProcessComponents ==
  /\ build.stage = "components"
  /\ LET r == process_components(glob(build.firefox_root, D_a, Listing), 1, dep_graph)
     IN IF r.ok
        THEN dep_graph' = r.val /\ build' = [build EXCEPT !.stage = "stylesheets"]
        ELSE Fail(r.err) /\ UNCHANGED dep_graph
  /\ UNCHANGED <<last, jar, out, call>>

\* process_global_stylesheets with global_stylesheets = ["s/*"]
ProcessGlobalStylesheets ==
  /\ build.stage = "stylesheets"
  /\ dep_graph' = process_global_stylesheets(glob(build.firefox_root, <<"s">>, Listing), 1,
          dep_graph)
  /\ build' = [build EXCEPT !.stage = "dependencies"]
  /\ UNCHANGED <<last, jar, out, call>>

\* process_dependencies on entry: every file of the graph is queued
ProcessDependencies ==
  /\ build.stage = "dependencies"
  /\ build' = [build EXCEPT !.stage = "to_process", !.to_process = dep_graph.nodes,
                            !.processed = {}]
  /\ UNCHANGED <<dep_graph, last, jar, out, call>>

\* faulty variant: the processed set is not kept
ProcessNextFile_forgetful ==
  /\ build.stage = "to_process"
  /\ IF build.to_process = <<>>
     THEN build' = [build EXCEPT !.stage = "transform", !.next = 1] /\ UNCHANGED dep_graph
     ELSE
       LET file == build.to_process[Len(build.to_process)]
           popped == SubSeq(build.to_process, 1, Len(build.to_process) - 1)
           sites == read_to_string(build.content, CWD, file.path)
           deps == IF file.file_type \in {JsComponent, JsFile}
                   THEN js_dependencies_from_string(sites)
                   ELSE IF file.file_type = CssFile THEN css_dependencies_from_string(sites)
                   ELSE <<>>
           st == process_deps(deps, 1, file, jar, TreeFiles, CWD, {},
                              [ok |-> TRUE, dep_graph |-> dep_graph, to_process |-> popped])
       IN IF ~st.ok
          THEN Fail("Failed to add dependency") /\ dep_graph' = st.dep_graph
          ELSE /\ dep_graph' = st.dep_graph
               /\ build' = [build EXCEPT
                              !.to_process = st.to_process,
                              !.extracted = MapInsert(@, file.path,
                                IF file.path \in DOMAIN @ THEN "again" ELSE "once")]
  /\ UNCHANGED <<last, jar, out, call>>

\* one turn of the while loop of process_dependencies; extracted notes for each path
\* whether dependencies_from_file has been called for it once or again
ProcessNextFile ==
  /\ build.stage = "to_process"
  /\ IF build.to_process = <<>>
     THEN build' = [build EXCEPT !.stage = "transform", !.next = 1] /\ UNCHANGED dep_graph
     ELSE
       LET file == build.to_process[Len(build.to_process)]
           popped == SubSeq(build.to_process, 1, Len(build.to_process) - 1)
           sites == read_to_string(build.content, CWD, file.path)
           deps == IF file.file_type \in {JsComponent, JsFile}
                   THEN js_dependencies_from_string(sites)
                   ELSE IF file.file_type = CssFile THEN css_dependencies_from_string(sites)
                   ELSE <<>>
           processed == build.processed \cup {file.path}
           st == process_deps(deps, 1, file, jar, TreeFiles, CWD, processed,
                              [ok |-> TRUE, dep_graph |-> dep_graph, to_process |-> popped])
       IN IF file.path \in build.processed
          THEN build' = [build EXCEPT !.to_process = popped] /\ UNCHANGED dep_graph
          ELSE IF ~st.ok
          THEN Fail("Failed to add dependency") /\ dep_graph' = st.dep_graph
          ELSE /\ dep_graph' = st.dep_graph
               /\ build' = [build EXCEPT
                              !.to_process = st.to_process, !.processed = processed,
                              !.extracted = MapInsert(@, file.path,
                                IF file.path \in DOMAIN @ THEN "again" ELSE "once")]
  /\ UNCHANGED <<last, jar, out, call>>

\* one turn of the loop of transform_and_write_files: the file at node index next
TransformAndWrite ==
  /\ build.stage = "transform"
  /\ IF build.next > Len(dep_graph.nodes)
     THEN build' = [build EXCEPT !.stage = "done"] /\ UNCHANGED out
     ELSE
       LET file == dep_graph.nodes[build.next]
           dist_path == get_dist_path(file)
           code == transformed_code(dep_graph, file, build.content, CWD)
       IN IF file.target_location = Omit \/ ~dist_path.some
          THEN build' = [build EXCEPT !.next = @ + 1] /\ UNCHANGED out
          ELSE IF ~code.ok THEN Fail(code.err) /\ UNCHANGED out
          ELSE /\ out' = MapInsert(out, dist_path.val, [source |-> file.path, code |-> code.val])
               /\ build' = [build EXCEPT !.next = @ + 1]
  /\ UNCHANGED <<dep_graph, last, jar, call>>

NextLib ==
  \/ \E values_order \in ValuesOrders({S_content \o <<":">> \o <<"g">>}) :
       NewPathFinder(values_order)
  \/ ProcessComponents
  \/ ProcessGlobalStylesheets
  \/ ProcessDependencies
  \/ ProcessNextFile
  \/ TransformAndWrite

SpecLib == InitLib /\ [][NextLib]_vars

(***************************************************************************)
(* Claims about the graph and the output of a run                          *)
(***************************************************************************)
\* C5 as stated: no source file is represented by two nodes; a file matched by a
\* component or global-stylesheet glob that is also reached by resolving an import is
\* one and the same node.
C5_OneNodePerFile ==
  \A i, j \in DOMAIN dep_graph.nodes :
    absolute(CWD, dep_graph.nodes[i].path) = absolute(CWD, dep_graph.nodes[j].path) => i = j

\* the part of C5 the code keeps: with a firefox_root given relative to the working
\* directory every node path is the working-directory-relative form of its file, and
\* no file has two nodes
C5_RelativeRootOneNodePerFile ==
  ~is_absolute(build.firefox_root) =>
    /\ C5_OneNodePerFile
    /\ \A i \in DOMAIN dep_graph.nodes :
         dep_graph.nodes[i].path
           = make_relative_to_cwd(CWD, absolute(CWD, dep_graph.nodes[i].path))

\* the code written for the node at index i
CodeOf(i) == out[get_dist_path(dep_graph.nodes[i]).val].code

\* the written code of the edge's source holds a reference that leads (its query and
\* fragment apart) from the source's dist path to the target's dist path
EdgeRewritten(e) ==
  \E k \in DOMAIN CodeOf(e.source) :
    ResolveFrom(get_dist_path(dep_graph.nodes[e.source]).val,
                clean_url(CodeOf(e.source)[k].text))
      = get_dist_path(dep_graph.nodes[e.target]).val

\* C10 as stated: after a successful run, for every edge A -> B with A a component
\* root, script or stylesheet that has a dist path and B with a dist path, the code
\* written for A holds a reference that resolves, from A's dist path, to B's dist path.
C10_EveryEdgeRewritten ==
  build.stage = "done" =>
    \A k \in DOMAIN dep_graph.edges :
      LET e == dep_graph.edges[k]
      IN (/\ dep_graph.nodes[e.source].file_type \in {JsComponent, JsFile, CssFile}
          /\ get_dist_path(dep_graph.nodes[e.source]).some
          /\ get_dist_path(dep_graph.nodes[e.target]).some)
           => EdgeRewritten(e)

\* the part of C10 the code keeps: the edges of a file without href attributes,
\* stylesheet links and plain string literals are all rewritten
C10_RewrittenKinds ==
  build.stage = "done" =>
    \A k \in DOMAIN dep_graph.edges :
      LET e == dep_graph.edges[k]
          sites == read_to_string(build.content, CWD, dep_graph.nodes[e.source].path)
      IN (/\ dep_graph.nodes[e.source].file_type \in {JsComponent, JsFile, CssFile}
          /\ get_dist_path(dep_graph.nodes[e.source]).some
          /\ get_dist_path(dep_graph.nodes[e.target]).some
          /\ \A s \in DOMAIN sites : sites[s].kind \notin {"href", "link", "literal"})
           => EdgeRewritten(e)

(***************************************************************************)
(* End-to-end scenario 1: a component that imports its neighbour           *)
(***************************************************************************)
S_components == <<"c", "o", "m", "p", "o", "n", "e", "n", "t", "s">>
S_dependencies == <<"d", "e", "p", "e", "n", "d", "e", "n", "c", "i", "e", "s">>

\* the import a/x.mjs is made of in scenario 1
ImportUtil == Site("import", <<".", "/">> \o N_util_mjs)

\* a finished run on a tree whose a/x.mjs is `import "./util.mjs";`, with a/util.mjs
\* next to it and the component glob matching both
Scenario1 ==
  /\ build.stage = "done"
  /\ build.content[TreeFile(<<D_a, N_x_mjs>>)] = <<ImportUtil>>

\* the import the written components/a/x.mjs is made of
WrittenImportOfX == out[<<S_components, D_a, N_x_mjs>>].code

\* C11 as stated: scenario 1 writes components/a/x.mjs with its import rewritten to
\* ../../dependencies/util.mjs, and writes dependencies/util.mjs.
C11_Scenario1 ==
  Scenario1 =>
    /\ <<S_components, D_a, N_x_mjs>> \in DOMAIN out
    /\ WrittenImportOfX
         = <<Site("import", <<".", ".", "/", ".", ".", "/">> \o S_dependencies \o <<"/">>
                              \o N_util_mjs)>>
    /\ <<S_dependencies, N_util_mjs>> \in DOMAIN out

\* C11 amended: the glob matches util.mjs too, so scenario 1 writes components/a/x.mjs
\* and components/a/util.mjs; when the import resolves to that same node (source root
\* relative to the working directory) the import stays ./util.mjs and no
\* dependencies/util.mjs is written; when it resolves to a second node for util.mjs
\* (absolute source root) the import becomes ../../dependencies/util.mjs and
\* dependencies/util.mjs is written as well.
C11_Scenario1GlobSeedsUtil ==
  Scenario1 =>
    /\ <<S_components, D_a, N_x_mjs>> \in DOMAIN out
    /\ <<S_components, D_a, N_util_mjs>> \in DOMAIN out
    /\ IF is_absolute(build.firefox_root)
       THEN /\ WrittenImportOfX
                 = <<Site("import", <<".", ".", "/", ".", ".", "/">> \o S_dependencies
                                      \o <<"/">> \o N_util_mjs)>>
            /\ <<S_dependencies, N_util_mjs>> \in DOMAIN out
       ELSE /\ WrittenImportOfX = <<ImportUtil>>
            /\ <<S_dependencies, N_util_mjs>> \notin DOMAIN out

C11_Witness ==
  /\ Scenario1
  /\ ~is_absolute(build.firefox_root)
  /\ WrittenImportOfX = <<ImportUtil>>
  /\ out[<<S_components, D_a, N_util_mjs>>].source = <<D_ff, D_a, N_util_mjs>>

(***************************************************************************)
(* CssInlineTransformer (transform/js_transform/css_inline_transform.rs)   *)
(*                                                                         *)
(* A class is kept by its super class and the html-tagged templates that   *)
(* process_statement and process_expression reach in its methods, in       *)
(* source order.  A template is the sequence of its string fragments       *)
(* (quasis), and a fragment is the sequence of the <link> tags in its      *)
(* cooked text, each with its rel and its href.                            *)
(***************************************************************************)
LinkTag(rel, href) == [rel |-> rel, href |-> href]

\* link_tag_regex.is_match(cooked): a <link followed by rel="stylesheet"
is_match_link_tag(cooked) == \E i \in DOMAIN cooked : cooked[i].rel = "stylesheet"

\* CssInlineTransformer::extract_href_from_link_tag: the href of the first <link> tag
extract_href_from_link_tag(cooked) == IF cooked = <<>> THEN None ELSE Some(cooked[1].href)

\* CssInlineTransformer::remove_link_tag: every stylesheet <link> tag is taken out
remove_link_tag(cooked) == SelectSeq(cooked, LAMBDA tag : tag.rel # "stylesheet")

\* CssInlineTransformer::process_html_template, the loop over template.quasis from the
\* k-th on; st holds found_replacement, referenced_hrefs and the quasis as rewritten
RECURSIVE inline_quasis(_, _, _, _)
inline_quasis(quasis, k, css_replacements, st) ==
  IF k > Len(quasis) THEN st
  ELSE
    LET cooked == quasis[k]
        href == extract_href_from_link_tag(cooked)
        seen == {st.referenced_hrefs[i] : i \in DOMAIN st.referenced_hrefs}
    IN IF ~is_match_link_tag(cooked) THEN inline_quasis(quasis, k + 1, css_replacements, st)
       ELSE IF ~href.some THEN inline_quasis(quasis, k + 1, css_replacements, st)
       ELSE IF href.val \notin DOMAIN css_replacements
       THEN inline_quasis(quasis, k + 1, css_replacements, st)
       ELSE inline_quasis(quasis, k + 1, css_replacements,
              [found_replacement |-> TRUE,
               referenced_hrefs |-> IF href.val \in seen THEN st.referenced_hrefs
                                    ELSE Append(st.referenced_hrefs, href.val),
               quasis |-> [st.quasis EXCEPT ![k] = remove_link_tag(cooked)]])

inline_process_html_template(template, css_replacements, referenced_hrefs) ==
  inline_quasis(template, 1, css_replacements,
                [found_replacement |-> FALSE, referenced_hrefs |-> referenced_hrefs,
                 quasis |-> template])

\* add_styles_property: combined_css, one block per referenced href that has css
RECURSIVE combined_css_of(_, _)
combined_css_of(referenced_hrefs, css_replacements) ==
  IF referenced_hrefs = <<>> THEN <<>>
  ELSE (IF referenced_hrefs[1] \in DOMAIN css_replacements
        THEN <<[from |-> referenced_hrefs[1], css |-> css_replacements[referenced_hrefs[1]]]>>
        ELSE <<>>)
         \o combined_css_of(Tail(referenced_hrefs), css_replacements)

\* the class field  static styles = [...(Super.styles ?? []), css`combined_css`]
StylesProperty(super_class_name, css) ==
  [key |-> "styles", static |-> TRUE, spread |-> super_class_name, css |-> css]

\* CssInlineTransformer::add_styles_property
add_styles_property(new_properties, referenced_hrefs, css_replacements, super_class_name) ==
  LET css == combined_css_of(referenced_hrefs, css_replacements)
  IN IF \E i \in DOMAIN new_properties : new_properties[i].key = "styles" THEN new_properties
     ELSE IF css # <<>> THEN Append(new_properties, StylesProperty(super_class_name, css))
     ELSE new_properties

\* CssInlineTransformer::enter_class, the loop over the html templates from the k-th on
RECURSIVE inline_templates(_, _, _, _)
inline_templates(class, k, css_replacements, st) ==
  IF k > Len(class.templates) THEN st
  ELSE
    LET r == inline_process_html_template(class.templates[k], css_replacements,
                                          st.referenced_hrefs)
    IN inline_templates(class, k + 1, css_replacements,
         [templates |-> Append(st.templates, r.quasis),
          referenced_hrefs |-> r.referenced_hrefs,
          new_properties |->
            IF r.found_replacement
            THEN add_styles_property(st.new_properties, r.referenced_hrefs, css_replacements,
                                     class.super_class)
            ELSE st.new_properties])

\* CssInlineTransformer::enter_class: the class as it is left, new_properties appended
enter_class(class, css_replacements) ==
  LET st == inline_templates(class, 1, css_replacements,
              [templates |-> <<>>, referenced_hrefs |-> <<>>, new_properties |-> <<>>])
  IN [super_class |-> class.super_class, templates |-> st.templates,
      added |-> st.new_properties, made_replacements |-> st.new_properties # <<>>]

(***************************************************************************)
(* One traversal of a class by the CssInlineTransformer                    *)
(***************************************************************************)
MaxTemplates == 2
MaxQuasis == 2
MaxTags == 2

S_s_css == <<"s", ".", "c", "s", "s">>
S_t_css == <<"t", ".", "c", "s", "s">>

\* the inlined css of the two stylesheets a component links
InlineCss == [href \in {S_s_css, S_t_css} |->
                <<Site("url", IF href = S_s_css THEN <<"s">> ELSE <<"t">>)>>]

S_u_css == <<"u", ".", "c", "s", "s">>

\* two stylesheets with inlined css, one stylesheet without, and a link that is no
\* stylesheet
LinkTags == {LinkTag("stylesheet", S_s_css), LinkTag("stylesheet", S_t_css),
             LinkTag("stylesheet", S_u_css),
             LinkTag("icon", <<"n", ".", "p", "n", "g">>)}
Fragments == UNION {[1..n -> LinkTags] : n \in 0..MaxTags}
Templates == UNION {[1..n -> Fragments] : n \in 1..MaxQuasis}
Classes == {[super_class |-> Some("B"), templates |-> t] :
              t \in UNION {[1..n -> Templates] : n \in 0..MaxTemplates}}

InitInline ==
  /\ dep_graph = EmptyGraph /\ last = NoCall
  /\ build = "idle" /\ jar = "idle" /\ out = "idle"
  /\ \E class \in Classes :
       call = [fn |-> "enter_class", class |-> class, done |-> FALSE, result |-> class]

\* the traversal enters the class
EnterClass ==
  /\ call.fn = "enter_class" /\ ~call.done
  /\ call' = [call EXCEPT !.done = TRUE, !.result = enter_class(call.class, InlineCss)]
  /\ UNCHANGED <<dep_graph, last, build, jar, out>>

SpecInline == InitInline /\ [][EnterClass]_vars

\* the hrefs of the stylesheet <link> tags of a fragment sequence, each once, in order
\* of first occurrence
RECURSIVE FirstOccurrences(_, _)
FirstOccurrences(tags, seen) ==
  IF tags = <<>> THEN <<>>
  ELSE IF tags[1].rel = "stylesheet" /\ tags[1].href \notin seen
  THEN <<tags[1].href>> \o FirstOccurrences(Tail(tags), seen \cup {tags[1].href})
  ELSE FirstOccurrences(Tail(tags), seen)

RECURSIVE Flatten(_)
Flatten(seqs) == IF seqs = <<>> THEN <<>> ELSE seqs[1] \o Flatten(Tail(seqs))

\* the stylesheet hrefs linked in the class's html templates
StylesheetHrefs(class) == FirstOccurrences(Flatten(Flatten(class.templates)), {})

\* every stylesheet the class links has inlined css
AllInlined(class) ==
  \A i \in DOMAIN StylesheetHrefs(class) : StylesheetHrefs(class)[i] \in DOMAIN InlineCss

\* C12 as stated: when the html templates of a class link stylesheets X1..Xn (n >= 1,
\* all with inlined css), in any distribution over templates and fragments, the class
\* gets exactly one added static field styles, whose css holds one block per Xi, in
\* order of first occurrence, with Xi's inlined css.
C12_OneStylesFieldWithEveryLink ==
  (/\ call.fn = "enter_class" /\ call.done /\ StylesheetHrefs(call.class) # <<>>
   /\ AllInlined(call.class)) =>
    /\ Len(call.result.added) = 1
    /\ call.result.added[1].key = "styles" /\ call.result.added[1].static
    /\ call.result.added[1].css
         = [i \in DOMAIN StylesheetHrefs(call.class) |->
              [from |-> StylesheetHrefs(call.class)[i],
               css |-> InlineCss[StylesheetHrefs(call.class)[i]]]]

\* the part of C12 the code keeps: at most one styles field is added, and when the
\* class has one html template whose fragments hold one <link> tag at most, the field
\* has a block for every linked stylesheet, in order of first occurrence
C12_OneTemplateOneLinkPerFragment ==
  (call.fn = "enter_class" /\ call.done) =>
    /\ Len(call.result.added) <= 1
    /\ (/\ Len(call.class.templates) = 1
        /\ \A q \in DOMAIN call.class.templates[1] : Len(call.class.templates[1][q]) <= 1
        /\ StylesheetHrefs(call.class) # <<>> /\ AllInlined(call.class))
         => /\ Len(call.result.added) = 1
            /\ call.result.added[1].css
                 = [i \in DOMAIN StylesheetHrefs(call.class) |->
                      [from |-> StylesheetHrefs(call.class)[i],
                       css |-> InlineCss[StylesheetHrefs(call.class)[i]]]]

(***************************************************************************)
(* One call of transform::js::transform_from_string on a script            *)
(***************************************************************************)
S_i_svg == <<".", ".", "/", "i", "/", "i", ".", "s", "v", "g">>

\* the places of the script, and the keys url_replacements may have with their values
CallSites ==
  {Site("import", S_lit_all_mjs), ImportUtil, Site("import", <<".", "/", "z", ".", "m", "j", "s">>),
   Site("src", S_i_svg), Site("array", S_i_svg)}
RewrittenTo ==
  [key \in {S_lit_all_mjs, ImportUtil.text, S_i_svg} |->
     IF key = S_i_svg THEN <<".", ".", "/", ".", ".", "/", "a", "s", "s", "e", "t", "s", "/", "i", ".", "s", "v", "g">>
     ELSE <<".", ".", "/", ".", ".", "/">> \o S_dependencies \o <<"/">> \o SubSeq(key, Len(key) - 7, Len(key))]

InitJs ==
  /\ dep_graph = EmptyGraph /\ last = NoCall
  /\ build = "idle" /\ jar = "idle" /\ out = "idle"
  /\ \E sites \in UNION {[1..n -> CallSites] : n \in 0..MaxSites}, keys \in SUBSET DOMAIN RewrittenTo :
       call = [fn |-> "transform_from_string", source_code |-> sites,
               url_replacements |-> [key \in keys |-> RewrittenTo[key]],
               done |-> FALSE, result |-> Err("")]

\* transform_from_string(source_code, url_replacements, None)
TransformFromString ==
  /\ call.fn = "transform_from_string" /\ ~call.done
  /\ call' = [call EXCEPT !.done = TRUE,
                          !.result = js_transform_from_string(call.source_code,
                                                              call.url_replacements, None)]
  /\ UNCHANGED <<dep_graph, last, build, jar, out>>

SpecJs == InitJs /\ [][TransformFromString]_vars

\* an import declaration whose source is neither lit.all.mjs nor a key
MissesReplacement(site, url_replacements) ==
  site.kind = "import" /\ site.text # S_lit_all_mjs /\ site.text \notin DOMAIN url_replacements

\* C13: every import declaration is visited: a source equal to lit.all.mjs is left as
\* it is, any other source that is a key of import_replacements becomes its mapped
\* value, and when a source is neither the transformation fails and returns no code.
C13_ImportSourcesRewritten ==
  (call.fn = "transform_from_string" /\ call.done) =>
    IF \E i \in DOMAIN call.source_code :
         MissesReplacement(call.source_code[i], call.url_replacements)
    THEN ~call.result.ok
    ELSE /\ call.result.ok
         /\ Len(call.result.val) = Len(call.source_code)
         /\ \A i \in DOMAIN call.source_code :
              call.source_code[i].kind = "import" =>
                /\ call.result.val[i].kind = "import"
                /\ call.result.val[i].text
                     = IF call.source_code[i].text = S_lit_all_mjs THEN S_lit_all_mjs
                       ELSE call.url_replacements[call.source_code[i].text]

C13_Witness ==
  /\ call.fn = "transform_from_string" /\ call.done /\ call.result.ok
  /\ S_lit_all_mjs \in DOMAIN call.url_replacements
  /\ call.source_code = <<Site("import", S_lit_all_mjs), ImportUtil>>
  /\ call.result.val[1].text = S_lit_all_mjs
  /\ call.result.val[2].text = RewrittenTo[ImportUtil.text]

C13_FatalWitness ==
  /\ call.fn = "transform_from_string" /\ call.done /\ ~call.result.ok
  /\ call.source_code = <<ImportUtil, Site("import", <<".", "/", "z", ".", "m", "j", "s">>)>>

(***************************************************************************)
(* Claims about the graph handed to the writer                             *)
(***************************************************************************)
\* the import sources of the script at node i that have no entry in the node's
\* replacement map
UnreplacedImports(i) ==
  LET file == dep_graph.nodes[i]
      sites == read_to_string(build.content, CWD, file.path)
  IN {sites[k].text : k \in {k \in DOMAIN sites :
        MissesReplacement(sites[k], get_import_replacements(dep_graph, file.path).val)}}

\* C14 as stated: once the graph is built without error, every import source other
\* than lit.all.mjs of every script that is written is a key of the script's
\* replacement map, and the transformation never stops for a missing replacement.
C14_GraphClosedForTransformation ==
  /\ build.stage \in {"transform", "done"} =>
       \A i \in DOMAIN dep_graph.nodes :
         (dep_graph.nodes[i].file_type \in {JsComponent, JsFile}
            /\ get_dist_path(dep_graph.nodes[i]).some) => UnreplacedImports(i) = {}
  /\ build.stage = "failed" => build.error # "panic: URL replacement not found"

\* the part of C14 the code keeps: a script whose imports all resolved to files that
\* are written has every import source in its replacement map
C14_ResolvedImportsAreKeys ==
  build.stage \in {"transform", "done"} =>
    \A i \in DOMAIN dep_graph.nodes :
      (dep_graph.nodes[i].file_type \in {JsComponent, JsFile}
         /\ get_dist_path(dep_graph.nodes[i]).some) =>
        \A text \in UnreplacedImports(i) :
          LET p == get_path(jar, TreeFiles, CWD, dep_graph.nodes[i].path, text)
          IN ~p.ok \/ get_file(dep_graph, p.val).val.target_location = Omit

(***************************************************************************)
(* One call of transform::css::transform_from_string on a stylesheet       *)
(***************************************************************************)
S_icon_svg == <<"i", "c", "o", "n", ".", "s", "v", "g">>
S_x_css == <<"x", ".", "c", "s", "s">>

\* the url() values and @import targets of the stylesheet
CssCallSites ==
  {Site("url", S_icon_svg), Site("url", S_icon_svg \o <<"?", "v", "=", "2">>),
   Site("url", S_icon_svg \o <<"#", "a">>), Site("url", <<"n", ".", "s", "v", "g">>),
   Site("url", <<"d", "a", "t", "a", ":", ",", "x">>),
   Site("url", <<"h", "t", "t", "p", ":", "/", "/", "h", "/", "i">>),
   Site("url", <<"/", "/", "h", "/", "i", "?", "v">>),
   Site("import", S_x_css), Site("import", S_x_css \o <<"?", "v", "=", "1">>),
   Site("import", <<"h", "t", "t", "p", "s", ":", "/", "/", "h", "/", "x">>)}

\* the replacement map the graph gives for the references that resolved: its keys are
\* texts the extractor emitted
CssRewrittenTo ==
  [key \in {S_icon_svg, S_x_css} |->
     IF key = S_icon_svg THEN <<".", ".", "/", "a", "s", "s", "e", "t", "s", "/">> \o S_icon_svg
     ELSE <<".", "/">> \o S_x_css]

InitCss ==
  /\ dep_graph = EmptyGraph /\ last = NoCall
  /\ build = "idle" /\ jar = "idle" /\ out = "idle"
  /\ \E sites \in UNION {[1..n -> CssCallSites] : n \in 0..MaxSites},
        keys \in SUBSET DOMAIN CssRewrittenTo :
       call = [fn |-> "css_transform_from_string", css_content |-> sites,
               url_replacements |-> [key \in keys |-> CssRewrittenTo[key]],
               done |-> FALSE, result |-> Err("")]

\* transform::css::transform_from_string(css_content, url_replacements)
CssTransformFromString ==
  /\ call.fn = "css_transform_from_string" /\ ~call.done
  /\ call' = [call EXCEPT !.done = TRUE,
                          !.result = css_transform_from_string(call.css_content,
                                                               call.url_replacements)]
  /\ UNCHANGED <<dep_graph, last, build, jar, out>>

SpecCss == InitCss /\ [][CssTransformFromString]_vars

\* the split of a reference at its first '?' or '#'
BaseOf(text) ==
  IF \E i \in DOMAIN text : text[i] \in {"?", "#"}
  THEN SubSeq(text, 1, (CHOOSE i \in DOMAIN text :
                          text[i] \in {"?", "#"}
                            /\ \A j \in 1..(i - 1) : text[j] \notin {"?", "#"}) - 1)
  ELSE text
SuffixOf(text) == SubSeq(text, Len(BaseOf(text)) + 1, Len(text))

\* data:, http://, https:// and // references
IsNetworkOrData(base) ==
  \E prefix \in {<<"d", "a", "t", "a", ":">>, <<"h", "t", "t", "p", ":", "/", "/">>,
                 <<"h", "t", "t", "p", "s", ":", "/", "/">>, <<"/", "/">>} :
    StartsWith(base, prefix)

\* the references of one kind that can be neither skipped nor replaced
NotFound(sites, kind, url_replacements) ==
  {i \in DOMAIN sites : /\ sites[i].kind = kind
                        /\ ~IsNetworkOrData(BaseOf(sites[i].text))
                        /\ BaseOf(sites[i].text) \notin DOMAIN url_replacements}

\* the split/skip/replace rule at the references of one kind of a transformed sheet
SplitSkipReplace(kind) ==
  \A i \in DOMAIN call.css_content :
    call.css_content[i].kind = kind =>
      call.result.val[i]
        = IF IsNetworkOrData(BaseOf(call.css_content[i].text)) THEN call.css_content[i]
          ELSE Site(kind, call.url_replacements[BaseOf(call.css_content[i].text)]
                            \o SuffixOf(call.css_content[i].text))

C16_ImportSplitSkipReplace ==
  (call.fn = "css_transform_from_string" /\ call.done) =>
    /\ call.result.ok => SplitSkipReplace("import")
    /\ (\A i \in DOMAIN css_dependencies_from_string(call.css_content) :
          css_dependencies_from_string(call.css_content)[i] \in DOMAIN call.url_replacements)
         => call.result.ok

\* the part of C16 the code keeps: an @import target without '?' or '#' is skipped or
\* replaced like a url() value
C16_ImportWithoutSuffix ==
  (/\ call.fn = "css_transform_from_string" /\ call.done
   /\ \A i \in DOMAIN call.css_content :
        call.css_content[i].kind = "import" => SuffixOf(call.css_content[i].text) = <<>>)
      => /\ (call.result.ok => SplitSkipReplace("import"))
         /\ ((\A i \in DOMAIN css_dependencies_from_string(call.css_content) :
                css_dependencies_from_string(call.css_content)[i]
                  \in DOMAIN call.url_replacements)
               => call.result.ok)

(***************************************************************************)
(* One call of PathFinder::get_path                                        *)
(***************************************************************************)
\* the files that hold the import, as the graph names them
PathCallFiles ==
  {<<D_ff, D_a, N_x_mjs>>, CWD \o <<D_ff, D_a, N_x_mjs>>,
   <<D_ff, <<"d">>, <<"u", ".", "m", "j", "s">>>>, <<D_ff, <<"s">>, <<"g", ".", "c", "s", "s">>>>}

\* the import texts
PathCallTexts ==
  {<<"/", "f", "f", "/", "i", "/", "i", ".", "s", "v", "g">>,
   <<"/", "w", "/", "f", "f", "/", "i", "/", "i", ".", "s", "v", "g">>,
   <<"/", "w", "/", "f", "f", "/", "a", "/", ".", ".", "/", "i", "/", "i", ".", "s", "v", "g">>,
   <<"/", "i", "/", "i", ".", "s", "v", "g">>,
   <<"/", "w", "/", "f", "f", "/", "z", ".", "s", "v", "g">>,
   <<".", "/", "u", "t", "i", "l", ".", "m", "j", "s">>,
   <<".", "/", "z", ".", "m", "j", "s">>,
   <<".", ".", "/", "i", "/", "i", ".", "s", "v", "g">>,
   <<".", ".", "/", "d", "/", "u", ".", "m", "j", "s">>,
   <<"x", ".", "c", "s", "s">>,
   <<"i", "/", "i", ".", "s", "v", "g">>,
   <<"u", "t", "i", "l", ".", "m", "j", "s">>,
   <<"c", "h", "r", "o", "m", "e", ":", "/", "/", "g", "/", "c", "o", "n", "t", "e", "n", "t", "/", "i", ".", "s", "v", "g">>,
   <<"h", "t", "t", "p", ":", "/", "/", "h", "/", "i", ".", "j", "s">>,
   <<".", "/", "x", ".", "c", "s", "s">>, <<".", ".", "/", "s", "/", "g", ".", "c", "s", "s">>}

InitPath ==
  /\ dep_graph = EmptyGraph /\ last = NoCall
  /\ build = "idle" /\ jar = "idle" /\ out = "idle"
  /\ \E current_file \in PathCallFiles, import_string \in PathCallTexts :
       call = [fn |-> "get_path", current_file |-> current_file,
               import_string |-> import_string, done |-> FALSE, result |-> Err("")]

\* path_finder.get_path(current_file, import_string) in the tree of the run, with the
\* resolver of its manifest
GetPath ==
  /\ call.fn = "get_path" /\ ~call.done
  /\ \E values_order \in ValuesOrders({S_content \o <<":">> \o <<"g">>}) :
       call' = [call EXCEPT
         !.done = TRUE,
         !.result = get_path(JarResolver_new(<<D_ff>>, <<JarPath>>,
                                             [p \in {<<D_ff>> \o JarPath} |-> LibManifest],
                                             CWD, values_order).val,
                             TreeFiles, CWD, call.current_file, call.import_string)]
  /\ UNCHANGED <<dep_graph, last, build, jar, out>>

SpecPath == InitPath /\ [][GetPath]_vars

\* something of the tree is at the absolute path p
Present(p) == \E f \in TreeFiles : p \in Ancestors(f)

\* a relative-looking import text that is not a chrome:// or resource:// URL
RelativeLooking(text) ==
  /\ ~StartsWith(text, S_chrome) /\ ~StartsWith(text, S_resource)
  /\ \/ text[1] = "/" \/ StartsWith(text, <<".", "/">>) \/ StartsWith(text, <<".", ".", "/">>)
     \/ /\ ~Contains(text, <<":", "/", "/">>)
        /\ \/ Contains(text, <<"/">>)
           \/ \E e \in {<<".", "j", "s">>, <<".", "c", "s", "s">>, <<".", "t", "s">>,
                        <<".", "j", "s", "x">>, <<".", "t", "s", "x">>} : EndsWith(text, e)

\* get_path found the file at the absolute path target, or found nothing there
ResolvesTo(target) ==
  IF Present(target) THEN call.result.ok /\ absolute(CWD, call.result.val) = target
  ELSE ~call.result.ok

\* the text joined with the folder of the file that holds the import
FromParentOfCurrentFile ==
  absolute(CWD, SubSeq(call.current_file, 1, Len(call.current_file) - 1)
                  \o PathFrom(call.import_string))

\* C17 as stated: a text that begins with '/' is joined with the working directory,
\* normalized and checked for existence; every other relative-looking text is joined
\* with the folder of current_file.
C17_LeadingSlashFromWorkingDirectory ==
  (call.fn = "get_path" /\ call.done /\ RelativeLooking(call.import_string)) =>
    IF call.import_string[1] = "/"
    THEN ResolvesTo(absolute(CWD, Tail(PathFrom(call.import_string))))
    ELSE ResolvesTo(FromParentOfCurrentFile)

\* C17 amended: a text that begins with '/' is taken as it is, as a path from the root
\* of the filesystem (joined neither with the working directory nor with the folder of
\* current_file), normalized and checked for existence; every other relative-looking
\* text is joined with the folder of current_file.
C17_LeadingSlashFromFilesystemRoot ==
  (call.fn = "get_path" /\ call.done /\ RelativeLooking(call.import_string)) =>
    IF call.import_string[1] = "/"
    THEN ResolvesTo(resolve_dots(PathFrom(call.import_string), 1, <<>>))
    ELSE ResolvesTo(FromParentOfCurrentFile)

C17_Witness ==
  /\ call.fn = "get_path" /\ call.done /\ call.result.ok
  /\ call.import_string = <<"/", "w", "/", "f", "f", "/", "i", "/", "i", ".", "s", "v", "g">>
  /\ call.current_file = <<D_ff, <<"d">>, <<"u", ".", "m", "j", "s">>>>
  /\ call.result.val = <<D_ff, <<"i">>, <<"i", ".", "s", "v", "g">>>>

(***************************************************************************)
(* IconTemplateImportTransformer on html templates                         *)
(* (transform/js_transform/icon_template_import.rs)                        *)
(*                                                                         *)
(* The cooked text of a template fragment is a sequence of pieces: an      *)
(* attribute name="value" that src_regex matches, or any other text.       *)
(***************************************************************************)
Text(text) == [attr |-> FALSE, text |-> text]
Attr(name, value) == [attr |-> TRUE, name |-> name, value |-> value]

\* the characters of a cooked text
RECURSIVE Render(_)
Render(pieces) ==
  IF pieces = <<>> THEN <<>>
  ELSE (IF pieces[1].attr
        THEN pieces[1].name \o <<"=", "\"">> \o pieces[1].value \o <<"\"">>
        ELSE pieces[1].text) \o Render(Tail(pieces))

\* IconTemplateImportTransformer::create_url_expression
create_url_expression(replacement_path) == [new_url |-> replacement_path]

\* process_html_template, the inner loop `while let Some(caps) = src_regex.captures`:
\* the first match of cooked_str whose value has a replacement, with the text of
\* cooked_str before and after it
RECURSIVE captures_with_replacement(_, _)
captures_with_replacement(cooked_str, path_replacements) ==
  IF \A i \in DOMAIN cooked_str : ~cooked_str[i].attr THEN None
  ELSE
    LET full_match == CHOOSE i \in DOMAIN cooked_str :
                        cooked_str[i].attr /\ \A j \in 1..(i - 1) : ~cooked_str[j].attr
        src_value == cooked_str[full_match].value
    IN IF src_value \in DOMAIN path_replacements
       THEN Some([before_src |-> SubSeq(cooked_str, 1, full_match - 1),
                  after_src |-> SubSeq(cooked_str, full_match + 1, Len(cooked_str)),
                  replacement_path |-> path_replacements[src_value]])
       ELSE captures_with_replacement(SubSeq(cooked_str, full_match + 1, Len(cooked_str)),
                                      path_replacements)

\* the elements of s with x put in before position i
InsertAt(s, i, x) == SubSeq(s, 1, i - 1) \o <<x>> \o SubSeq(s, i, Len(s))

\* a faulty variant: the new expression is pushed after the expressions there are
replace_src_with_url_expression_pushed(template, quasi_index, before_src, after_src, replacement_path) ==
  LET new_before == before_src \o <<Text(<<"s", "r", "c", "=", "\"">>)>>
      new_after == <<Text(<<"\"">>)>> \o after_src
      is_tail == template.quasis[quasi_index].tail
      quasis == [template.quasis EXCEPT ![quasi_index] = [cooked |-> new_before, tail |-> FALSE]]
  IN [quasis |-> InsertAt(quasis, quasi_index + 1, [cooked |-> new_after, tail |-> is_tail]),
      expressions |-> Append(template.expressions, create_url_expression(replacement_path))]

\* IconTemplateImportTransformer::replace_src_with_url_expression
replace_src_with_url_expression(template, quasi_index, before_src, after_src, replacement_path) ==
  LET new_before == before_src \o <<Text(<<"s", "r", "c", "=", "\"">>)>>
      new_after == <<Text(<<"\"">>)>> \o after_src
      is_tail == template.quasis[quasi_index].tail
      quasis == [template.quasis EXCEPT ![quasi_index] = [cooked |-> new_before, tail |-> FALSE]]
  IN [quasis |-> InsertAt(quasis, quasi_index + 1, [cooked |-> new_after, tail |-> is_tail]),
      expressions |-> InsertAt(template.expressions, quasi_index,
                               create_url_expression(replacement_path))]

\* IconTemplateImportTransformer::process_html_template, the loop from idx on
RECURSIVE icon_process_html_template(_, _, _)
icon_process_html_template(template, idx, path_replacements) ==
  IF idx > Len(template.quasis) THEN template
  ELSE
    LET caps == captures_with_replacement(template.quasis[idx].cooked, path_replacements)
    IN IF caps.some
       THEN icon_process_html_template(
              replace_src_with_url_expression(template, idx, caps.val.before_src,
                                              caps.val.after_src, caps.val.replacement_path),
              idx + 2, path_replacements)
       ELSE icon_process_html_template(template, idx + 1, path_replacements)

\* IconTemplateImportTransformer::enter_tagged_template_expression
enter_tagged_template_expression(tagged, path_replacements) ==
  IF tagged.tag # "html" THEN tagged
  ELSE [tag |-> tagged.tag, quasi |-> icon_process_html_template(tagged.quasi, 1, path_replacements)]

(***************************************************************************)
(* One html template under the IconTemplateImportTransformer               *)
(***************************************************************************)
MaxPieces == 2

\* path_replacements: icon.svg -> ../assets/icon.svg and ../i/i.svg -> ../../assets/i.svg
IconReplacements ==
  [key \in {S_icon_svg, S_i_svg} |->
     IF key = S_icon_svg THEN CssRewrittenTo[key] ELSE RewrittenTo[key]]

Pieces ==
  {Text(<<"<", "i", "m", "g", " ">>), Attr(<<"s", "r", "c">>, S_icon_svg),
   Attr(<<"i", "c", "o", "n", "s", "r", "c">>, S_i_svg),
   Attr(<<"s", "r", "c">>, <<"n", ".", "s", "v", "g">>)}
CookedTexts == UNION {[1..n -> Pieces] : n \in 0..MaxPieces}

\* a template as the parser leaves it: the last fragment is the tail, and the i-th
\* interpolated expression of the source text sits after the i-th fragment
TemplateOf(cooked) ==
  [quasis |-> [i \in DOMAIN cooked |-> [cooked |-> cooked[i], tail |-> i = Len(cooked)]],
   expressions |-> [i \in 1..(Len(cooked) - 1) |-> [new_url |-> <<>>, written |-> i]]]

\* the templates entered: up to MaxQuasis fragments holding MaxPieces + 1 pieces
\* between them
InitIcon ==
  /\ dep_graph = EmptyGraph /\ last = NoCall
  /\ build = "idle" /\ jar = "idle" /\ out = "idle"
  /\ \E cooked \in UNION {[1..n -> CookedTexts] : n \in 1..MaxQuasis}, tag \in {"html", "svg"} :
       /\ Len(Flatten(cooked)) <= MaxPieces + 1
       /\ call = [fn |-> "enter_tagged_template_expression",
                  tagged |-> [tag |-> tag, quasi |-> TemplateOf(cooked)],
                  done |-> FALSE, result |-> [tag |-> tag, quasi |-> TemplateOf(cooked)]]

\* the traversal enters the tagged template
EnterTaggedTemplateExpression ==
  /\ call.fn = "enter_tagged_template_expression" /\ ~call.done
  /\ call' = [call EXCEPT !.done = TRUE,
                          !.result = enter_tagged_template_expression(call.tagged,
                                                                      IconReplacements)]
  /\ UNCHANGED <<dep_graph, last, build, jar, out>>

SpecIcon == InitIcon /\ [][EnterTaggedTemplateExpression]_vars

\* the values of the src= and iconsrc= attributes of a cooked text that have a
\* replacement, in order
KeyedValues(cooked) ==
  LET keyed == SelectSeq(cooked, LAMBDA piece :
                 piece.attr /\ piece.value \in DOMAIN IconReplacements)
  IN [i \in DOMAIN keyed |-> keyed[i].value]

\* the same over the fragments of a template from the k-th on
RECURSIVE KeyedValuesOf(_, _)
KeyedValuesOf(quasis, k) ==
  IF k > Len(quasis) THEN <<>>
  ELSE KeyedValues(quasis[k].cooked) \o KeyedValuesOf(quasis, k + 1)

\* the new URL(...) expressions of a template, in order
NewUrls(template) ==
  LET added == SelectSeq(template.expressions, LAMBDA e : e.new_url # <<>>)
  IN [i \in DOMAIN added |-> added[i].new_url]

\* C18 as stated: in an html template every src= or iconsrc= attribute whose value has a
\* replacement is rewritten to an interpolated new URL(replacement, import.meta.url).href,
\* also when a fragment holds several of them or one after an attribute without
\* replacement.
C18_EveryOccurrenceRewritten ==
  (call.fn = "enter_tagged_template_expression" /\ call.done /\ call.tagged.tag = "html") =>
    NewUrls(call.result.quasi)
      = [i \in DOMAIN KeyedValuesOf(call.tagged.quasi.quasis, 1) |->
           IconReplacements[KeyedValuesOf(call.tagged.quasi.quasis, 1)[i]]]

\* the part of C18 the code keeps: in every fragment the first attribute with a
\* replacement is rewritten, whatever precedes it
C18_FirstOccurrenceOfEachFragment ==
  (call.fn = "enter_tagged_template_expression" /\ call.done /\ call.tagged.tag = "html") =>
    LET firsts == SelectSeq([i \in DOMAIN call.tagged.quasi.quasis |->
                               KeyedValues(call.tagged.quasi.quasis[i].cooked)],
                            LAMBDA values : values # <<>>)
    IN NewUrls(call.result.quasi) = [i \in DOMAIN firsts |-> IconReplacements[firsts[i][1]]]


\* whether the fragments of the result from the j-th on are the fragments of the
\* original from the k-th on, each rewritten one split in two so that
\* left half, original value, right half read as the original text, the right half
\* with the original tail flag
RECURSIVE SplitAtValueOnly(_, _, _, _)
SplitAtValueOnly(original, k, result, j) ==
  IF k > Len(original) THEN j = Len(result) + 1
  ELSE IF KeyedValues(original[k].cooked) = <<>>
       THEN /\ j <= Len(result) /\ result[j] = original[k]
            /\ SplitAtValueOnly(original, k + 1, result, j + 1)
       ELSE /\ j + 1 <= Len(result)
            /\ Render(result[j].cooked) \o KeyedValues(original[k].cooked)[1]
                 \o Render(result[j + 1].cooked) = Render(original[k].cooked)
            /\ result[j + 1].tail = original[k].tail
            /\ SplitAtValueOnly(original, k + 1, result, j + 2)

\* C19 as stated: a rewritten fragment is split at the matched value only: left half,
\* original value and right half concatenate to the original fragment text (earlier
\* attributes and the attribute name kept), and the right half carries the tail flag of
\* the original fragment.
C19_SplitAtValueOnly ==
  (call.fn = "enter_tagged_template_expression" /\ call.done /\ call.tagged.tag = "html") =>
    SplitAtValueOnly(call.tagged.quasi.quasis, 1, call.result.quasi.quasis, 1)

\* the same where the split is what the code writes: the left half is the text between
\* the last attribute without replacement and the match followed by src=", the right half
\* is a quote and all the text after the match
RECURSIVE SplitAsWritten(_, _, _, _)
SplitAsWritten(original, k, result, j) ==
  IF k > Len(original) THEN j = Len(result) + 1
  ELSE IF KeyedValues(original[k].cooked) = <<>>
       THEN /\ j <= Len(result) /\ result[j] = original[k]
            /\ SplitAsWritten(original, k + 1, result, j + 1)
       ELSE LET cooked == original[k].cooked
                at == CHOOSE i \in DOMAIN cooked :
                        /\ cooked[i].attr /\ cooked[i].value \in DOMAIN IconReplacements
                        /\ \A h \in 1..(i - 1) :
                             ~(cooked[h].attr /\ cooked[h].value \in DOMAIN IconReplacements)
                from == IF \E h \in 1..(at - 1) : cooked[h].attr
                        THEN 1 + CHOOSE h \in 1..(at - 1) :
                                   cooked[h].attr /\ \A g \in (h + 1)..(at - 1) : ~cooked[g].attr
                        ELSE 1
            IN /\ j + 1 <= Len(result)
               /\ Render(result[j].cooked)
                    = Render(SubSeq(cooked, from, at - 1)) \o <<"s", "r", "c", "=", "\"">>
               /\ Render(result[j + 1].cooked)
                    = <<"\"">> \o Render(SubSeq(cooked, at + 1, Len(cooked)))
               /\ ~result[j].tail /\ result[j + 1].tail = original[k].tail
               /\ SplitAsWritten(original, k + 1, result, j + 2)

\* the part of C19 the code keeps: the text after the match and the tail flag are kept;
\* the text before the match is kept from the last attribute without replacement on, and
\* the attribute is written as src
C19_SplitAsWritten ==
  (call.fn = "enter_tagged_template_expression" /\ call.done /\ call.tagged.tag = "html") =>
    SplitAsWritten(call.tagged.quasi.quasis, 1, call.result.quasi.quasis, 1)


(***************************************************************************)
(* normalize_path on relative paths                                        *)
(***************************************************************************)
MaxPathLen == 4

N_foo == <<"f", "o", "o">>
N_bar == <<"b", "a", "r">>
N_baz == <<"b", "a", "z">>
N_test == <<"t", "e", "s", "t">>
N_test2 == <<"t", "e", "s", "t", "2">>

\* the paths of the tests test_normalize_path_simple, _leading_parents and
\* _more_middle_parents, as the texts between the slashes
P_simple == <<N_foo, DOT, N_bar, DOTDOT, N_baz>>
P_leading_parents == <<DOTDOT, DOTDOT, N_foo, N_bar>>
P_more_middle_parents ==
  <<DOTDOT, DOTDOT, DOTDOT, N_test, DOTDOT, DOTDOT, DOTDOT, N_test2>>

RelativePaths ==
  UNION {[1..n -> {DOT, DOTDOT, N_foo, N_bar}] : n \in 0..MaxPathLen}
    \cup {P_simple, P_leading_parents, P_more_middle_parents}

InitNormalize ==
  /\ dep_graph = EmptyGraph /\ last = NoCall
  /\ build = "idle" /\ jar = "idle" /\ out = "idle"
  /\ \E path \in RelativePaths :
       call = [fn |-> "normalize_path", path |-> path, done |-> FALSE, result |-> <<>>]

\* normalize_path(Path::new(path))
NormalizePath ==
  /\ call.fn = "normalize_path" /\ ~call.done
  /\ call' = [call EXCEPT !.done = TRUE,
                          !.result = normalize_path(ComponentsFrom(call.path, 1))]
  /\ UNCHANGED <<dep_graph, last, build, jar, out>>

SpecNormalize == InitNormalize /\ [][NormalizePath]_vars

IsNamed(component) == component \notin {DOT, DOTDOT, ROOT}

\* p with each ".." taken away together with the named component right before it,
\* the leftmost such pair first, until no pair is left
RECURSIVE Cancelled(_)
Cancelled(p) ==
  IF \E i \in 1..(Len(p) - 1) : IsNamed(p[i]) /\ p[i + 1] = DOTDOT
  THEN LET i == CHOOSE i \in 1..(Len(p) - 1) :
                  /\ IsNamed(p[i]) /\ p[i + 1] = DOTDOT
                  /\ \A h \in 1..(i - 1) : ~(IsNamed(p[h]) /\ p[h + 1] = DOTDOT)
       IN Cancelled(SubSeq(p, 1, i - 1) \o SubSeq(p, i + 2, Len(p)))
  ELSE p

\* C20: for a relative path normalize_path drops every "." component, cancels each ".."
\* against the nearest preceding named component still there and keeps a ".." without
\* one, so leading parents stay; the three paths of the tests give ../../foo/bar,
\* ../../../../../test2 and foo/baz; the result has no "." and no ".." after a named
\* component.
C20_NormalizeRelative ==
  (call.fn = "normalize_path" /\ call.done) =>
    /\ call.result = Cancelled(SelectSeq(call.path, LAMBDA component : component # DOT))
    /\ \A i \in DOMAIN call.result : call.result[i] # DOT
    /\ \A i \in DOMAIN call.result :
         call.result[i] = DOTDOT => \A h \in 1..(i - 1) : call.result[h] = DOTDOT
    /\ call.path = P_leading_parents => call.result = P_leading_parents
    /\ call.path = P_more_middle_parents => call.result = Repeat(DOTDOT, 5) \o <<N_test2>>
    /\ call.path = P_simple => call.result = <<N_foo, N_baz>>

\* a path with leading parents, a cancelled parent and a named component has been
\* normalized
C20_Witness ==
  /\ call.fn = "normalize_path" /\ call.done
  /\ call.path = P_more_middle_parents
  /\ call.result = Repeat(DOTDOT, 5) \o <<N_test2>>


(***************************************************************************)
(* The worklist traversal on a tree whose imports form cycles              *)
(***************************************************************************)
MaxImports == 2

\* the places a/x.mjs is made of: itself, d/u.mjs, a file that does not exist, a/x.css
\* and i/i.svg
WalkSites ==
  {Site("import", <<".", "/", "x", ".", "m", "j", "s">>),
   Site("import", <<".", ".", "/", "d", "/", "u", ".", "m", "j", "s">>),
   Site("import", <<".", "/", "z", ".", "m", "j", "s">>),
   Site("link", <<".", "/", "x", ".", "c", "s", "s">>),
   Site("src", <<".", ".", "/", "i", "/", "i", ".", "s", "v", "g">>)}

\* a/util.mjs imports a/x.mjs; d/u.mjs imports a/x.mjs or links a/x.css;
\* a/x.css imports s/g.css or itself; s/g.css imports a/x.css or nothing
WalkContents ==
  {[f \in TreeFiles |->
      CASE f = TreeFile(<<D_a, N_x_mjs>>) -> x
        [] f = TreeFile(<<D_a, N_util_mjs>>) -> util
        [] f = TreeFile(<<<<"d">>, <<"u", ".", "m", "j", "s">>>>) -> u
        [] f = TreeFile(<<D_a, <<"x", ".", "c", "s", "s">>>>) -> x_css
        [] f = TreeFile(<<<<"s">>, <<"g", ".", "c", "s", "s">>>>) -> g
        [] OTHER -> <<>>] :
     x \in UNION {[1..n -> WalkSites] : n \in 0..MaxImports},
     util \in {<<Site("import", <<".", "/", "x", ".", "m", "j", "s">>)>>},
     u \in {<<Site("import", <<".", ".", "/", "a", "/", "x", ".", "m", "j", "s">>)>>,
            <<Site("link", <<".", ".", "/", "a", "/", "x", ".", "c", "s", "s">>)>>},
     x_css \in {<<Site("import", <<".", ".", "/", "s", "/", "g", ".", "c", "s", "s">>)>>,
                <<Site("import", <<".", "/", "x", ".", "c", "s", "s">>)>>},
     g \in {<<>>, <<Site("import", <<".", ".", "/", "a", "/", "x", ".", "c", "s", "s">>)>>}}

InitWalk ==
  /\ dep_graph = EmptyGraph /\ last = NoCall /\ call = "idle"
  /\ jar = [mappings |-> EmptyMap]
  /\ out = EmptyMap
  /\ \E firefox_root \in FirefoxRoots, content \in WalkContents :
       build = [stage |-> "new", firefox_root |-> firefox_root, content |-> content,
                to_process |-> <<>>, processed |-> {}, extracted |-> EmptyMap,
                next |-> 1, error |-> ""]

\* the run goes on as long as it has a step to take: weak fairness of NextLib, which is
\* enabled until the stage is done or failed and whose every step changes build
SpecWalk ==
  InitWalk /\ [][NextLib]_vars
    /\ ([]<><<NextLib>>_vars \/ <>[](build.stage \in {"done", "failed"}))

\* C21: the worklist traversal ends on every tree, also when imports form cycles or a
\* file imports itself, and a dependency extractor is called at most once for each
\* node path.
C21_TraversalTerminates ==
  /\ [](build.stage = "to_process" => <>(build.stage # "to_process"))
  /\ [](\A p \in DOMAIN build.extracted : build.extracted[p] = "once")

\* the traversal has ended on a tree where a/x.mjs imports itself and a/x.css and
\* s/g.css import each other
C21_Witness ==
  /\ build.stage = "transform"
  /\ \E i \in DOMAIN build.content[TreeFile(<<D_a, N_x_mjs>>)] :
       build.content[TreeFile(<<D_a, N_x_mjs>>)][i]
         = Site("import", <<".", "/", "x", ".", "m", "j", "s">>)
  /\ build.content[TreeFile(<<D_a, <<"x", ".", "c", "s", "s">>>>)] # <<>>
  /\ build.content[TreeFile(<<<<"s">>, <<"g", ".", "c", "s", "s">>>>)] # <<>>
  /\ \E e \in DOMAIN dep_graph.edges : dep_graph.edges[e].source = dep_graph.edges[e].target
  /\ Cardinality(DOMAIN build.extracted) >= 4


\* the import texts the extractor of its kind finds in the file of a node
ExtractedFrom(node) ==
  LET sites == read_to_string(build.content, CWD, node.path)
      deps == IF node.file_type \in {JsComponent, JsFile}
              THEN js_dependencies_from_string(sites)
              ELSE IF node.file_type = CssFile THEN css_dependencies_from_string(sites)
              ELSE <<>>
  IN {deps[k] : k \in DOMAIN deps}

\* C22: when the traversal has finished every node of the graph has been processed; for
\* every node F and every import text d extracted from F there is an edge from F to
\* resolve(F, d) with text d exactly when d resolves, there is no other edge, and every
\* node that is not a seed is the target of an edge; an import that does not resolve adds
\* nothing and never fails the traversal.
C22_GraphIsClosureOfSeeds ==
  /\ build.error # "Failed to add dependency"
  /\ build.stage = "transform" =>
       /\ \A i \in DOMAIN dep_graph.nodes : dep_graph.nodes[i].path \in build.processed
       /\ \A i \in DOMAIN dep_graph.nodes : \A d \in ExtractedFrom(dep_graph.nodes[i]) :
            LET resolved_path == get_path(jar, TreeFiles, CWD, dep_graph.nodes[i].path, d)
            IN IF resolved_path.ok
               THEN /\ contains_file(dep_graph, resolved_path.val)
                    /\ \E e \in DOMAIN dep_graph.edges :
                         dep_graph.edges[e] = [source |-> i,
                                               target |-> dep_graph.path_to_index[resolved_path.val],
                                               import_statement |-> d]
               ELSE \A e \in DOMAIN dep_graph.edges :
                      ~(dep_graph.edges[e].source = i /\ dep_graph.edges[e].import_statement = d)
       /\ \A e \in DOMAIN dep_graph.edges :
            LET edge == dep_graph.edges[e]
                resolved_path == get_path(jar, TreeFiles, CWD, dep_graph.nodes[edge.source].path,
                                          edge.import_statement)
            IN /\ edge.import_statement \in ExtractedFrom(dep_graph.nodes[edge.source])
               /\ resolved_path.ok /\ dep_graph.nodes[edge.target].path = resolved_path.val
       /\ \A i \in DOMAIN dep_graph.nodes :
            dep_graph.nodes[i].target_location.tag \in {"Asset", "Dependency", "Omit"}
              => \E e \in DOMAIN dep_graph.edges : dep_graph.edges[e].target = i

\* the traversal has finished on a tree where a/x.mjs imports a file that does not exist
\* and then a file that does
C22_Witness ==
  /\ build.stage = "transform"
  /\ Len(build.content[TreeFile(<<D_a, N_x_mjs>>)]) = 2
  /\ build.content[TreeFile(<<D_a, N_x_mjs>>)][1]
       = Site("import", <<".", "/", "z", ".", "m", "j", "s">>)
  /\ build.content[TreeFile(<<D_a, N_x_mjs>>)][2]
       = Site("import", <<".", ".", "/", "d", "/", "u", ".", "m", "j", "s">>)
  /\ \E e \in DOMAIN dep_graph.edges :
       dep_graph.edges[e].import_statement = <<".", ".", "/", "d", "/", "u", ".", "m", "j", "s">>


\* the import texts the extractor finds in the file of a node, in order
ExtractedInOrder(node) ==
  LET sites == read_to_string(build.content, CWD, node.path)
  IN IF node.file_type \in {JsComponent, JsFile} THEN js_dependencies_from_string(sites)
     ELSE IF node.file_type = CssFile THEN css_dependencies_from_string(sites)
     ELSE <<>>

HasExtension(d, exts) == \E e \in exts : EndsWith(d, <<".">> \o e)

\* the kind and the destination C23 gives a node created for import d found in file F
KindFor(d) ==
  IF HasExtension(d, {<<"c", "s", "s">>}) THEN CssFile
  ELSE IF HasExtension(d, {<<"j", "s">>, <<"m", "j", "s">>}) THEN JsFile
  ELSE OpaqueFile

DestinationFor(F, d) ==
  IF F.file_type = JsComponent /\ HasExtension(d, {<<"c", "s", "s">>}) THEN Omit
  ELSE IF HasExtension(d, {<<"p", "n", "g">>, <<"j", "p", "g">>, <<"j", "p", "e", "g">>,
                           <<"s", "v", "g">>}) THEN Asset
  ELSE Dependency

\* C23: a node the traversal creates for import d found in file F has destination Omit
\* when F is a component script and d ends in .css, else Asset when d ends in .png, .jpg,
\* .jpeg or .svg, else Dependency; its kind is CssFile for .css, JsFile for .js or .mjs
\* and OpaqueFile otherwise.
C23_CreatedNodeFromImportText ==
  [][(build.stage = "to_process" /\ build.to_process # <<>>) =>
       \A i \in (Len(dep_graph.nodes) + 1)..Len(dep_graph.nodes') :
         LET F == build.to_process[Len(build.to_process)]
             deps == ExtractedInOrder(F)
             Resolves(k) ==
               LET resolved_path == get_path(jar, TreeFiles, CWD, F.path, deps[k])
               IN resolved_path.ok /\ resolved_path.val = dep_graph.nodes'[i].path
         IN \E k \in DOMAIN deps :
              /\ Resolves(k) /\ \A h \in 1..(k - 1) : ~Resolves(h)
              /\ dep_graph.nodes'[i].file_type = KindFor(deps[k])
              /\ dep_graph.nodes'[i].target_location = DestinationFor(F, deps[k])]_vars

\* the traversal has created an omitted stylesheet, an asset and a script
C23_Witness ==
  \E i, j, k \in DOMAIN dep_graph.nodes :
    /\ dep_graph.nodes[i].target_location = Omit /\ dep_graph.nodes[i].file_type = CssFile
    /\ dep_graph.nodes[j].target_location = Asset /\ dep_graph.nodes[j].file_type = OpaqueFile
    /\ dep_graph.nodes[k].target_location = Dependency /\ dep_graph.nodes[k].file_type = JsFile


(***************************************************************************)
(* Two builds of the graph over the same files in different orders         *)
(***************************************************************************)
\* process_dependencies, one turn of the while loop: st holds the graph, to_process
\* and processed
process_dependencies_turn(content, jar_resolver, files, cwd, st) ==
  LET file == st.to_process[Len(st.to_process)]
      popped == SubSeq(st.to_process, 1, Len(st.to_process) - 1)
      sites == read_to_string(content, cwd, file.path)
      deps == IF file.file_type \in {JsComponent, JsFile}
              THEN js_dependencies_from_string(sites)
              ELSE IF file.file_type = CssFile THEN css_dependencies_from_string(sites)
              ELSE <<>>
      processed == st.processed \cup {file.path}
      after == process_deps(deps, 1, file, jar_resolver, files, cwd, processed,
                            [ok |-> TRUE, dep_graph |-> st.dep_graph, to_process |-> popped])
  IN IF file.path \in st.processed THEN [st EXCEPT !.to_process = popped]
     ELSE [processed |-> processed] @@ after

\* whether the while loop of a build is over: to_process is empty or a dependency
\* could not be added
LoopOver(st) == ~st.ok \/ st.to_process = <<>>

\* process_dependencies: what it returns when the loop is over
process_dependencies_result(st) ==
  IF st.ok THEN Ok(st.dep_graph) ELSE Err("Failed to add dependency")

Reverse(s) == [i \in DOMAIN s |-> s[Len(s) + 1 - i]]

\* transform_lib up to the call of process_dependencies, with the component files
\* seeded in the given order: the graph, the worklist it fills and the resolver
SeededBuild(firefox_root, component_files) ==
  LET jr == JarResolver_new(firefox_root, <<JarPath>>,
              [p \in {join(firefox_root, JarPath)} |-> LibManifest], CWD,
              <<S_content \o <<":">> \o <<"g">>>>)
      seeded == process_components(component_files, 1, EmptyGraph)
      styled == process_global_stylesheets(glob(firefox_root, <<"s">>, Listing), 1, seeded.val)
  IN [ok |-> TRUE, dep_graph |-> styled, to_process |-> styled.nodes, processed |-> {},
      jar_resolver |-> jr.val]

\* two builds over the same files: the second with the component files seeded in the
\* other order and, or, the imports of every file in the other order
InitOrders ==
  /\ dep_graph = EmptyGraph /\ last = NoCall
  /\ build = "idle" /\ jar = "idle" /\ out = "idle"
  /\ \E firefox_root \in FirefoxRoots, content \in WalkContents,
        seeds_reversed \in BOOLEAN, imports_reversed \in BOOLEAN :
       LET files == glob(firefox_root, D_a, Listing)
           other == [f \in TreeFiles |->
                       IF imports_reversed THEN Reverse(content[f]) ELSE content[f]]
       IN /\ seeds_reversed \/ imports_reversed
          /\ call = [fn |-> "process_dependencies", firefox_root |-> firefox_root,
                     seeds_reversed |-> seeds_reversed,
                     imports_reversed |-> imports_reversed,
                     content |-> <<content, other>>,
                     runs |-> <<SeededBuild(firefox_root, files),
                                SeededBuild(firefox_root,
                                            IF seeds_reversed THEN Reverse(files)
                                            ELSE files)>>,
                     done |-> FALSE, result |-> <<>>]

\* each build that is not over takes one turn of its while loop
BuildBoth ==
  /\ call.fn = "process_dependencies" /\ ~call.done
  /\ \E runs \in {[r \in 1..2 |->
                     IF LoopOver(call.runs[r]) THEN call.runs[r]
                     ELSE [jar_resolver |-> call.runs[r].jar_resolver] @@
                            process_dependencies_turn(call.content[r],
                                                      call.runs[r].jar_resolver,
                                                      TreeFiles, CWD, call.runs[r])]} :
       call' = [call EXCEPT
         !.runs = runs,
         !.done = LoopOver(runs[1]) /\ LoopOver(runs[2]),
         !.result = IF LoopOver(runs[1]) /\ LoopOver(runs[2])
                    THEN <<process_dependencies_result(runs[1]),
                           process_dependencies_result(runs[2])>>
                    ELSE <<>>]
  /\ UNCHANGED <<dep_graph, last, build, jar, out>>

SpecOrders == InitOrders /\ [][BuildBoth]_vars

NodesOf(g) == {g.nodes[i] : i \in DOMAIN g.nodes}
EdgesOf(g) ==
  {[source |-> g.nodes[g.edges[e].source].path, target |-> g.nodes[g.edges[e].target].path,
    import_statement |-> g.edges[e].import_statement] : e \in DOMAIN g.edges}

MaxBodyLines == 4

IfndefLine(flag) == [kind |-> "ifndef", flag |-> flag]
F_MOZILLA_OFFICIAL ==
  <<"M", "O", "Z", "I", "L", "L", "A", "_", "O", "F", "F", "I", "C", "I", "A", "L">>

Digit(i) == <<SubSeq(<<"1", "2", "3", "4", "5", "6", "7", "8", "9">>, i, i)[1]>>

\* the lines of the body of a manifest; "file" and "registration" stand for a file line
\* and a registration line that name the place where they are
BodyLines ==
  {IfdefLine(F_ANDROID), IfdefLine(F_MOZILLA_OFFICIAL), IfndefLine(F_ANDROID), EndifLine,
   [kind |-> "file"], [kind |-> "registration"]}

\*   content/g/<i>.svg  (/i/i.svg)     and     % content r<i> %content/r/
FileLineAt(i) ==
  FileLine(<<"c", "o", "n", "t", "e", "n", "t", "/", "g", "/">> \o Digit(i)
             \o <<".", "s", "v", "g">>,
           Some(<<"/", "i", "/", "i", ".", "s", "v", "g">>))
RegistrationLineAt(i) ==
  RegistrationLine(<<S_content, <<"r">> \o Digit(i),
                     <<"%", "c", "o", "n", "t", "e", "n", "t", "/", "r", "/">>>>)

\* x.jar:  % content g %content/g/  and the body
ManifestOf(body) ==
  <<JarLine(<<"x", ".", "j", "a", "r">>),
    RegistrationLine(<<S_content, <<"g">>,
                       <<"%", "c", "o", "n", "t", "e", "n", "t", "/", "g", "/">>>>)>>
    \o [i \in DOMAIN body |->
          IF body[i].kind = "file" THEN FileLineAt(i)
          ELSE IF body[i].kind = "registration" THEN RegistrationLineAt(i)
          ELSE body[i]]

MappingKeyAt(i) ==
  S_chrome \o <<"g", "/">> \o S_content \o <<"/">> \o Digit(i) \o <<".", "s", "v", "g">>
RegistrationKeyAt(i) == S_content \o <<":">> \o <<"r">> \o Digit(i)

InitIfdef ==
  /\ dep_graph = EmptyGraph /\ last = NoCall
  /\ build = "idle" /\ jar = "idle" /\ out = "idle"
  /\ \E body \in UNION {[1..n -> BodyLines] : n \in 0..MaxBodyLines} :
       call = [fn |-> "parse_jar_file", body |-> body, done |-> FALSE, result |-> <<>>]

\* parse_jar_file on b/jar.mn with the flags of JarResolver::new
ParseJarFile ==
  /\ call.fn = "parse_jar_file" /\ ~call.done
  /\ call' = [call EXCEPT
       !.done = TRUE,
       !.result = parse_jar_file(ManifestOf(call.body), <<D_ff>> \o JarPath, <<D_ff>>, CWD,
                                 EmptyMap, EmptyMap, default_ifdef_config,
                                 <<S_content \o <<":">> \o <<"g">>>>
                                   \o [i \in 1..(MaxBodyLines + 1) |-> RegistrationKeyAt(i)])]
  /\ UNCHANGED <<dep_graph, last, build, jar, out>>

SpecIfdef == InitIfdef /\ [][ParseJarFile]_vars

\* conditionals opened minus conditionals closed in the first n lines
OpenAfter(body, n) ==
  Cardinality({j \in 1..n : body[j].kind \in {"ifdef", "ifndef"}})
    - Cardinality({j \in 1..n : body[j].kind = "endif"})

\* the conditional at line j is open at line i
Encloses(body, j, i) ==
  /\ j < i /\ body[j].kind \in {"ifdef", "ifndef"}
  /\ \A k \in j..(i - 1) : OpenAfter(body, k) >= OpenAfter(body, j)

Holds(line) ==
  IF line.kind = "ifdef" THEN default_ifdef_config[line.flag]
  ELSE ~default_ifdef_config[line.flag]

\* C24: a registration line or a file line takes effect exactly when every #ifdef and
\* #ifndef that encloses it holds, at any depth, so that after an #endif the lines count
\* as they did before the matching conditional; with the default flags nothing enclosed
\* in #ifdef ANDROID is in the URL map.
C24_ConjunctionOfEnclosingConditions ==
  (call.fn = "parse_jar_file" /\ call.done /\ call.result.ok) =>
    \A i \in DOMAIN call.body :
      LET effective == \A j \in 1..(i - 1) :
                         Encloses(call.body, j, i) => Holds(call.body[j])
      IN /\ call.body[i].kind = "file" =>
              /\ MappingKeyAt(i) \in DOMAIN call.result.mappings <=> effective
              /\ (\E j \in 1..(i - 1) : Encloses(call.body, j, i)
                                          /\ call.body[j] = IfdefLine(F_ANDROID))
                   => MappingKeyAt(i) \notin DOMAIN call.result.mappings
         /\ call.body[i].kind = "registration" =>
              (RegistrationKeyAt(i) \in DOMAIN call.result.chrome_registrations <=> effective)

\* a manifest has been parsed where a conditional that holds is closed inside one that
\* does not, and a file line follows inside the outer one
C24_Witness ==
  /\ call.fn = "parse_jar_file" /\ call.done /\ call.result.ok
  /\ call.body = <<IfdefLine(F_ANDROID), IfdefLine(F_MOZILLA_OFFICIAL), EndifLine,
                   [kind |-> "file"]>>
  /\ DOMAIN call.result.mappings = {}


(***************************************************************************)
(* ImportCssTransformer (import_css_transform.rs)                          *)
(*                                                                         *)
(* A module is the sequence of its import declarations, each with its      *)
(* source and the names of its import specifiers.                          *)
(***************************************************************************)
ImportDeclaration(source, specifiers) == [source |-> source, specifiers |-> specifiers]

S_css == <<"c", "s", "s">>
S_html == <<"h", "t", "m", "l">>

\* ImportCssTransformer::enter_import_declaration: the declaration and css_imported
\* after the visit
enter_import_declaration(node, css_imported) ==
  LET css_already_imported == \E i \in DOMAIN node.specifiers : node.specifiers[i] = S_css
  IN IF ~EndsWith(node.source, S_lit_all_mjs)
     THEN [node |-> node, css_imported |-> css_imported]
     ELSE IF css_already_imported \/ css_imported
     THEN [node |-> node, css_imported |-> css_imported \/ css_already_imported]
     ELSE [node |-> [node EXCEPT !.specifiers = Append(@, S_css)], css_imported |-> TRUE]

\* the traversal of ImportCssTransformer::build over the declarations from the k-th on
RECURSIVE import_css_from(_, _, _)
import_css_from(program, k, css_imported) ==
  IF k > Len(program) THEN program
  ELSE LET visited == enter_import_declaration(program[k], css_imported)
       IN import_css_from([program EXCEPT ![k] = visited.node], k + 1, visited.css_imported)

\* ImportCssTransformer::build
import_css_build(program) == import_css_from(program, 1, FALSE)

\* transform_from_string: the css-tag import pass runs when inline injection made
\* replacements
import_css_pass(program, made_replacements) ==
  IF made_replacements THEN import_css_build(program) ELSE program

MaxDeclarations == 2

Declarations ==
  {ImportDeclaration(source, specifiers) :
     source \in {<<".", "/">> \o S_lit_all_mjs, <<".", "/">> \o N_util_mjs},
     specifiers \in {<<>>, <<S_html>>, <<S_css>>, <<S_html, S_css>>}}

\* a module the semantic check of transform_from_string lets through: no name is
\* imported twice
PassesSemanticCheck(program) ==
  \A i, j \in DOMAIN program : \A a \in DOMAIN program[i].specifiers :
    \A b \in DOMAIN program[j].specifiers :
      program[i].specifiers[a] = program[j].specifiers[b] => (i = j /\ a = b)

InitImportCss ==
  /\ dep_graph = EmptyGraph /\ last = NoCall
  /\ build = "idle" /\ jar = "idle" /\ out = "idle"
  /\ \E program \in UNION {[1..n -> Declarations] : n \in 0..MaxDeclarations},
        made_replacements \in BOOLEAN :
       /\ PassesSemanticCheck(program)
       /\ call = [fn |-> "import_css_pass", program |-> program,
                  made_replacements |-> made_replacements, done |-> FALSE,
                  result |-> program]

ImportCssPass ==
  /\ call.fn = "import_css_pass" /\ ~call.done
  /\ call' = [call EXCEPT !.done = TRUE,
                          !.result = import_css_pass(call.program, call.made_replacements)]
  /\ UNCHANGED <<dep_graph, last, build, jar, out>>

SpecImportCss == InitImportCss /\ [][ImportCssPass]_vars

IsLit(declaration) == EndsWith(declaration.source, S_lit_all_mjs)
NamesCss(declaration) == \E i \in DOMAIN declaration.specifiers : declaration.specifiers[i] = S_css
Changed(program, result) == {k \in DOMAIN program : result[k] # program[k]}

\* C25 as stated: when inline injection added a styles field and the module imports from
\* lit.all.mjs, css is inserted into exactly one such import that does not name it, or
\* into none if any such import names css already, wherever that import stands; css is
\* then imported by exactly one declaration. When nothing was injected no import changes.
C25_CssImportedOnce ==
  (call.fn = "import_css_pass" /\ call.done) =>
    LET program == call.program
        result == call.result
        lit == {k \in DOMAIN program : IsLit(program[k])}
    IN /\ ~call.made_replacements => result = program
       /\ (call.made_replacements /\ lit # {}) =>
            /\ Len(result) = Len(program)
            /\ IF \E k \in lit : NamesCss(program[k])
               THEN result = program
               ELSE \E k \in lit :
                      /\ Changed(program, result) = {k}
                      /\ result[k] = [program[k] EXCEPT !.specifiers = Append(@, S_css)]
            /\ Cardinality({k \in lit : NamesCss(result[k])}) = 1

\* the part of C25 the code keeps: css goes into the first lit.all.mjs import unless that
\* import or one before it names css, and into no other import
C25_FirstLitImport ==
  (call.fn = "import_css_pass" /\ call.done /\ call.made_replacements) =>
    LET program == call.program
        lit == {k \in DOMAIN program : IsLit(program[k])}
    IN /\ Len(call.result) = Len(program)
       /\ \A k \in DOMAIN program :
            call.result[k] =
              IF k \in lit /\ \A h \in lit : h >= k /\ ~NamesCss(program[k])
              THEN [program[k] EXCEPT !.specifiers = Append(@, S_css)]
              ELSE program[k]


(***************************************************************************)
(* Stylesheet links taken out of a class's html templates                  *)
(***************************************************************************)
\* the stylesheet <link> tags of fragment q of template t that the traversal took out
RemovedLinks(t, q) ==
  IF call.result.templates[t][q] = call.class.templates[t][q] THEN {}
  ELSE {call.class.templates[t][q][i] : i \in
          {j \in DOMAIN call.class.templates[t][q] :
             call.class.templates[t][q][j].rel = "stylesheet"}}

\* the hrefs whose css the added styles field holds
InlinedInStyles ==
  UNION {{call.result.added[p].css[b].from : b \in DOMAIN call.result.added[p].css} :
           p \in DOMAIN call.result.added}

\* C27 as stated: every stylesheet <link> tag removed from a fragment has an href that
\* is a key of the inlined stylesheets and whose css is in the class's styles field,
\* and a stylesheet link whose href is not inlined stays in its fragment.
C27_NoStylesheetLost ==
  (call.fn = "enter_class" /\ call.done) =>
    \A t \in DOMAIN call.class.templates : \A q \in DOMAIN call.class.templates[t] :
      /\ \A tag \in RemovedLinks(t, q) :
           tag.href \in DOMAIN InlineCss /\ tag.href \in InlinedInStyles
      /\ \A i \in DOMAIN call.class.templates[t][q] :
           (/\ call.class.templates[t][q][i].rel = "stylesheet"
            /\ call.class.templates[t][q][i].href \notin DOMAIN InlineCss)
             => \E j \in DOMAIN call.result.templates[t][q] :
                  call.result.templates[t][q][j] = call.class.templates[t][q][i]

\* what the code keeps: a fragment is changed only when the href of its first <link>
\* tag is inlined, a fragment whose stylesheet links are all that first tag's loses no
\* other stylesheet, and in a class with one html template the css of the first tag's
\* href is in the styles field
C27_FirstLinkOfFragment ==
  (call.fn = "enter_class" /\ call.done) =>
    \A t \in DOMAIN call.class.templates : \A q \in DOMAIN call.class.templates[t] :
      RemovedLinks(t, q) # {} =>
        /\ call.class.templates[t][q][1].href \in DOMAIN InlineCss
        /\ Len(call.class.templates) = 1
             => call.class.templates[t][q][1].href \in InlinedInStyles


(***************************************************************************)
(* The shape of an html template after the IconTemplateImportTransformer   *)
(***************************************************************************)
\* where the k-th fragment of the original starts in the result: a fragment with a
\* keyed attribute was split in two
RECURSIVE StartOf(_, _)
StartOf(original, k) ==
  IF k = 1 THEN 1
  ELSE StartOf(original, k - 1)
         + (IF KeyedValues(original[k - 1].cooked) = <<>> THEN 1 ELSE 2)

\* whether the characters of s end those of t
IsSuffixOf(s, t) == Len(s) <= Len(t) /\ SubSeq(t, Len(t) - Len(s) + 1, Len(t)) = s

remove_node(nodes, edges, a) ==
  IF a \notin DOMAIN nodes THEN [some |-> FALSE, nodes |-> nodes, edges |-> edges]
  ELSE LET moved == Len(nodes)
           kept == SelectSeq(edges, LAMBDA e : e.source # a /\ e.target # a)
       IN [some |-> TRUE, val |-> nodes[a],
           nodes |-> [i \in 1..(Len(nodes) - 1) |-> IF i = a THEN nodes[moved] ELSE nodes[i]],
           edges |-> [k \in DOMAIN kept |->
                        [kept[k] EXCEPT !.source = IF @ = moved THEN a ELSE @,
                                        !.target = IF @ = moved THEN a ELSE @]]]

\* HashMap::remove
MapRemove(m, k) == [x \in DOMAIN m \ {k} |-> m[x]]

\* DependencyGraph::remove_file
remove_file(g, file_path) ==
  IF ~contains_file(g, file_path) THEN [graph |-> g, ok |-> FALSE, err |-> "FileNotFound"]
  ELSE LET node_idx == g.path_to_index[file_path]
           path_to_index == MapRemove(g.path_to_index, file_path)
           node == remove_node(g.nodes, g.edges, node_idx)
       IN IF ~node.some
          THEN [graph |-> [g EXCEPT !.path_to_index = path_to_index],
                ok |-> FALSE, err |-> "FileNotFound"]
          ELSE [graph |-> [nodes |-> node.nodes, edges |-> node.edges,
                           path_to_index |-> path_to_index],
                ok |-> TRUE, val |-> node.val]

(***************************************************************************)
(* add_file, add_dependency and remove_file called in any order.  Indexing *)
(* graph with a node index it does not have panics; a panic ends the run.  *)
(***************************************************************************)
Panicked == last.op = "panic"

RemoveFile(file_path) ==
  LET r == remove_file(dep_graph, file_path)
  IN /\ ~Panicked
     /\ dep_graph' = r.graph
     /\ last' = [NoCall EXCEPT !.op = "remove_file", !.from_file = file_path,
                               !.to_file = file_path, !.ok = r.ok,
                               !.existed = contains_file(dep_graph, file_path),
                               !.index = IF contains_file(dep_graph, file_path)
                                         THEN dep_graph.path_to_index[file_path] ELSE 0]
     /\ UNCHANGED <<build, jar, out, call>>

\* whether path is indexed under a node index the graph does not have
Dangling(g, path) ==
  contains_file(g, path) /\ g.path_to_index[path] \notin DOMAIN g.nodes

\* add_dependency looks both paths up and then reads self.graph[*from_idx] and
\* self.graph[*to_idx]
AddDependencyIndexed(from_file, to_file, import_statement) ==
  /\ ~Panicked
  /\ IF ~Dangling(dep_graph, from_file) /\ ~Dangling(dep_graph, to_file)
     THEN AddDependency(from_file, to_file, import_statement)
     ELSE /\ last' = IF contains_file(dep_graph, from_file) /\ contains_file(dep_graph, to_file)
                     THEN [NoCall EXCEPT !.op = "panic", !.from_file = from_file,
                                         !.to_file = to_file, !.ok = FALSE]
                     ELSE [NoCall EXCEPT !.op = "add_dependency", !.from_file = from_file,
                                         !.to_file = to_file,
                                         !.import_statement = import_statement,
                                         !.ok = FALSE]
          /\ UNCHANGED <<dep_graph, build, jar, out, call>>

\* nodes that lost their index entry stay in the graph, so the number of nodes is
\* capped
MaxNodes == 3

NextRemove ==
  \/ \E path \in GraphPaths, input \in FileInputs :
       ~Panicked /\ Len(dep_graph.nodes) < MaxNodes /\ AddFile(path, input[1], input[2])
  \/ \E from_file \in GraphPaths, to_file \in GraphPaths, import_statement \in ImportTexts :
       AddDependencyIndexed(from_file, to_file, import_statement)
  \/ \E file_path \in GraphPaths : RemoveFile(file_path)

SpecRemove == Init /\ [][NextRemove]_vars

\* every indexed path maps to a live node with that path, and every node is indexed
\* under its own path
IndexConsistent(g) ==
  /\ \A p \in DOMAIN g.path_to_index :
       g.path_to_index[p] \in DOMAIN g.nodes /\ g.nodes[g.path_to_index[p]].path = p
  /\ \A i \in DOMAIN g.nodes :
       contains_file(g, g.nodes[i].path) /\ g.path_to_index[g.nodes[i].path] = i

\* C29 as stated: after any sequence of add_file, add_dependency and remove_file calls
\* every indexed path maps to a live node with that path (get_file(p).path = p), every
\* node is indexed under its own path, and an add_dependency that succeeded connects
\* the two files it was called with.
C29_IndexConsistentUnderRemoval ==
  /\ ~Panicked
  /\ IndexConsistent(dep_graph)
  /\ (last.op = "add_dependency" /\ last.ok) =>
       /\ dep_graph.nodes[dep_graph.edges[last.index].source].path = last.from_file
       /\ dep_graph.nodes[dep_graph.edges[last.index].target].path = last.to_file

\* what the code keeps: the index stays consistent over add_file and add_dependency,
\* and over a remove_file of a path that is not indexed or whose node is the last one
C29_ConsistentWhenLastNodeRemoved ==
  [][(/\ IndexConsistent(dep_graph)
      /\ last'.op = "remove_file" =>
           (~last'.existed \/ last'.index = Len(dep_graph.nodes)))
       => IndexConsistent(dep_graph')]_vars


(***************************************************************************)
(* process_includes (utils/jar_resolver.rs), call by call                  *)
(*                                                                         *)
(* The function calls itself for every #include it can read.  stack holds  *)
(* one frame per call that has not returned: the file, its lines, the line *)
(* the loop is at, and result so far.  The thread's stack has room for a   *)
(* bounded number of frames; a call beyond it overflows the stack, which   *)
(* aborts the process.                                                     *)
(***************************************************************************)
MaxIncludeLines == 2
MaxDepth == 4

S_jar_mn == <<"j", "a", "r", ".", "m", "n">>

\* the lines of the manifest and of i.inc: text, an include of each other or of
\* themselves, an include of the missing m.inc
IncludeFileLines ==
  {RegBrowser, IncludeLine(S_i_inc), IncludeLine(S_jar_mn), IncludeLine(S_m_inc)}
IncludeContents == UNION {[1..n -> IncludeFileLines] : n \in 0..MaxIncludeLines}

\* the files that can be read: the manifest b/jar.mn and b/i.inc
IncludeFs(firefox_dir, manifest, included) ==
  LET full_jar_path == join(firefox_dir, JarPath)
      include_path == join(parent(full_jar_path).val, PathFrom(S_i_inc))
  IN [p \in {full_jar_path, include_path} |->
        IF p = full_jar_path THEN manifest ELSE included]

Frame(path, content) == [path |-> path, content |-> content, pos |-> 1, result |-> <<>>]

InitInclude ==
  /\ dep_graph = EmptyGraph /\ last = NoCall
  /\ build = "idle" /\ jar = "idle" /\ out = "idle"
  /\ \E manifest \in IncludeContents, included \in IncludeContents :
       call = [fn |-> "process_includes", firefox_dir |-> <<D_ff>>,
               fs |-> IncludeFs(<<D_ff>>, manifest, included),
               stack |-> <<Frame(join(<<D_ff>>, JarPath), manifest)>>,
               overflow |-> FALSE, done |-> FALSE, result |-> Ok(<<>>)]

Running == call.fn = "process_includes" /\ ~call.done /\ ~call.overflow

\* full_include_path of an #include line of the file at jar_file_path
full_include_path(line, jar_file_path, firefox_dir) ==
  LET jar_dir == parent(jar_file_path)
  IN IF StartsWith(line.path, <<"/">>)
     THEN join(firefox_dir, PathFrom(StripPrefix(line.path, <<"/">>)))
     ELSE join(IF jar_dir.some THEN jar_dir.val ELSE <<>>, PathFrom(line.path))

\* a line that is no #include is pushed to result
CopyLine ==
  LET top == call.stack[Len(call.stack)]
  IN /\ Running /\ top.pos <= Len(top.content)
     /\ top.content[top.pos].kind # "include"
     /\ call' = [call EXCEPT !.stack[Len(call.stack)] =
                   [top EXCEPT !.pos = @ + 1, !.result = Append(@, top.content[top.pos])]]
     /\ UNCHANGED <<dep_graph, last, build, jar, out>>

\* an #include line: the file is read and process_includes is called on its content;
\* a file that cannot be read ends every open call with the error
EnterInclude ==
  LET top == call.stack[Len(call.stack)]
      path == full_include_path(top.content[top.pos], top.path, call.firefox_dir)
  IN /\ Running /\ top.pos <= Len(top.content)
     /\ top.content[top.pos].kind = "include"
     /\ call' = IF path \notin DOMAIN call.fs
                THEN [call EXCEPT !.done = TRUE, !.result = Err("IncludeFileNotFound")]
                ELSE IF Len(call.stack) = MaxDepth THEN [call EXCEPT !.overflow = TRUE]
                ELSE [call EXCEPT !.stack = Append(@, Frame(path, call.fs[path]))]
     /\ UNCHANGED <<dep_graph, last, build, jar, out>>

\* the loop of the innermost call is over: Ok(result) goes to the caller, which pushes
\* it to its own result
ReturnOk ==
  LET depth == Len(call.stack)
      top == call.stack[depth]
  IN /\ Running /\ top.pos > Len(top.content)
     /\ call' = IF depth = 1
                THEN [call EXCEPT !.done = TRUE, !.result = Ok(top.result)]
                ELSE [call EXCEPT !.stack =
                        [SubSeq(call.stack, 1, depth - 1) EXCEPT
                           ![depth - 1].pos = @ + 1,
                           ![depth - 1].result = @ \o top.result]]
     /\ UNCHANGED <<dep_graph, last, build, jar, out>>

NextInclude == CopyLine \/ EnterInclude \/ ReturnOk

\* the call runs on its thread until it returns or the process is aborted
SpecInclude == InitInclude /\ [][NextInclude]_vars /\ WF_vars(NextInclude)

\* the readable files the lines of p include
IncludedBy(fs, p, firefox_dir) ==
  {full_include_path(fs[p][i], p, firefox_dir) :
     i \in {j \in DOMAIN fs[p] : fs[p][j].kind = "include"}} \cap DOMAIN fs

\* the files reached from the files of S over up to n includes
RECURSIVE ReachedFrom(_, _, _, _)
ReachedFrom(fs, S, firefox_dir, n) ==
  IF n = 0 THEN {}
  ELSE LET next == UNION {IncludedBy(fs, p, firefox_dir) : p \in S}
       IN next \cup ReachedFrom(fs, next, firefox_dir, n - 1)

\* some file includes itself, directly or through other files
IncludesItself(fs, firefox_dir) ==
  \E p \in DOMAIN fs : p \in ReachedFrom(fs, {p}, firefox_dir, Cardinality(DOMAIN fs))

\* C30 as stated: process_includes returns, with the spliced text or with an error,
\* for every set of manifest files, also when a manifest includes itself directly or
\* through other included files.
C30_IncludeExpansionReturns ==
  <>(call.fn = "process_includes" /\ call.done)

\* what the code keeps: the call returns or overflows the stack, it overflows only
\* when a file includes itself, and what it returns is what the function computes
C30_ReturnsUnlessFileIncludesItself ==
  /\ <>(call.done \/ call.overflow)
  /\ [](call.overflow => IncludesItself(call.fs, call.firefox_dir))
  /\ [](call.done =>
          call.result = process_includes(call.fs[join(call.firefox_dir, JarPath)],
                                         join(call.firefox_dir, JarPath),
                                         call.firefox_dir, call.fs))

====
